---- MODULE Spec2Model ----
(***************************************************************************)
(* The concurrent time-series cache of web_app.py: DATA_CACHE,             *)
(* LAST_MODIFIED, CACHE_LOCK, CACHE_KEY_LOCKS and data_version, the        *)
(* request handlers that read and reload them, and the external producer   *)
(* that rewrites the source files.                                         *)
(*                                                                         *)
(* One bucket "b" holds the source files TS-1 and TS-2.  A thread runs one *)
(* operation at a time; every access to shared state or to the file system *)
(* is one step.  A DataFrame is an object: id is its identity, content     *)
(* the version of the source it was parsed from (the file's modification   *)
(* time when it was read), date whether the column 'date' was added to it. *)
(***************************************************************************)
EXTENDS Integers, Sequences, FiniteSets, TLC

NumThreads == 2
MaxMtime == 2
MaxOps == 3

Threads == 1..NumThreads
Files == {1, 2}
\* the file the external producer is still rewriting; the other one is complete
Rewritten == {1}
Mtimes == 1..MaxMtime
None == 0

\* f"{bucket}/TS-{ts_id}": the key of get_bucket_data, get_bucket_data_since,
\* refresh_data_cache and the summary
SlashKey(f) == <<"b/TS-", f>>
\* f"{bucket_name}_TS-{ts_id}": the key of get_all_cumulative_returns
UnderKey(f) == <<"b_TS-", f>>
SlashKeys == {SlashKey(f) : f \in Files}
UnderKeys == {UnderKey(f) : f \in Files}
Keys == SlashKeys \cup UnderKeys
FileOf(k) == k[2]
\* every key of the cache is refreshed
IsAnyKey(k) == k[1] \in {"b/TS-", "b_TS-"}
\* '/' in cache_key and not cache_key.startswith('gs://')
IsBucketKey(k) == k[1] = "b/TS-"

VARIABLES
    DATA_CACHE,       \* dict: key -> DataFrame object
    LAST_MODIFIED,    \* dict: key -> modification time
    CACHE_LOCK,       \* the thread holding CACHE_LOCK, or None
    CACHE_KEY_LOCKS,  \* dict: key -> lock object <<key, n>>, the n-th made for the key
    lockOwner,        \* per lock object ever created: the thread holding it, or None
    data_version,
    files,            \* the source files: [mtime, st], st in ok / bad / missing
    started,          \* the number of operations started so far
    loads_stored,     \* history: the number of loads stored into DATA_CACHE so far
    th,               \* per thread: program counter and local variables
    arg,              \* the arguments of a call that touches no shared state
    ret               \* what that call has returned so far

vars == <<DATA_CACHE, LAST_MODIFIED, CACHE_LOCK, CACHE_KEY_LOCKS, lockOwner,
          data_version, files, started, loads_stored, th, arg, ret>>

shared == <<DATA_CACHE, LAST_MODIFIED, CACHE_LOCK, CACHE_KEY_LOCKS, lockOwner,
            data_version>>

----------------------------------------------------------------------------
\* Python dict operations

Has(d, k) == k \in DOMAIN d
Get(d, k) == d[k]
\* d[k] = v
Put(d, k, v) == [x \in DOMAIN d \cup {k} |-> IF x = k THEN v ELSE d[x]]

\* list(d.keys()): the keys in the dict's insertion order.  The order in which the
\* keys were inserted is not recorded: every order of the keys is a possible list.
KeyLists(d) ==
    {s \in [1..Cardinality(DOMAIN d) -> DOMAIN d] : \A i, j \in DOMAIN s : i # j => s[i] # s[j]}

----------------------------------------------------------------------------
\* DataFrame objects

NoDf == [id |-> 0, content |-> 0]        \* the local df is not assigned
EmptyDf == [id |-> -1, content |-> 0]    \* pd.DataFrame()

\* the identities of the live series of key k: the cached one and those that threads
\* working on k hold.  Objects of different keys are never compared.
UsedIds(k) ==
    (IF Has(DATA_CACHE, k) THEN {Get(DATA_CACHE, k).id} ELSE {})
        \cup {th[t].df.id : t \in {u \in Threads : th[u].cache_key = k}}
\* the identity of a newly allocated object: one no live object has
FreshId(k) == CHOOSE n \in 1..(Cardinality(UsedIds(k)) + 1) :
                  n \notin UsedIds(k) /\ \A m \in 1..(n - 1) : m \in UsedIds(k)

\* load_csv_data_from_path: the parsed series of the file as it is now, or the empty
\* DataFrame when the file is missing, empty or unparsable
load_csv_data_from_path(k) ==
    IF files[FileOf(k)].st = "ok"
    THEN [id |-> FreshId(k), content |-> files[FileOf(k)].mtime]
    ELSE EmptyDf

\* the object stored in DATA_CACHE for a freshly loaded df
CacheVal(k, d) == [id |-> d.id, content |-> d.content, date |-> FALSE]

\* each read goes to DATA_CACHE[k] again instead of the local df
ReadThroughCache(k, d) == Get(DATA_CACHE, k).content

\* what a thread reads through its reference d to a series of key k: the object's
\* present state when it is the one the cache holds, else the object as it was left
ReadThrough(k, d) ==
    IF Has(DATA_CACHE, k) /\ Get(DATA_CACHE, k).id = d.id
    THEN Get(DATA_CACHE, k).content
    ELSE d.content

Ref(v) == [id |-> v.id, content |-> v.content]

----------------------------------------------------------------------------
\* Thread-local state

Idle == [pc |-> "idle", op |-> "", cache_key |-> SlashKey(1), cache_key_lock |-> <<>>,
         df |-> NoDf, current_mtime |-> 0, tmp |-> 0,
         cache_keys_to_process |-> <<>>, view |-> <<>>, status |-> ""]

Set(t, r) == th' = [th EXCEPT ![t] = r]
At(t, p) == th[t].pc = p
Goto(t, p) == Set(t, [th[t] EXCEPT !.pc = p])
\* the operation answers code; locals that are dead by then are dropped
Return(t, code) == [th[t] EXCEPT !.pc = "ret", !.status = code, !.tmp = 0,
                                 !.cache_key_lock = <<>>, !.cache_keys_to_process = <<>>]

\* one more operation is started, while the run's budget lasts
Begin == started < MaxOps /\ started' = started + 1

CacheInit ==
    /\ DATA_CACHE = <<>>
    /\ LAST_MODIFIED = <<>>
    /\ CACHE_LOCK = None
    /\ CACHE_KEY_LOCKS = <<>>
    /\ lockOwner = <<>>
    /\ data_version = 1
    /\ files = [f \in Files |-> [mtime |-> 1, st |-> "ok"]]
    /\ started = 0
    /\ loads_stored = 0
    /\ th = [t \in Threads |-> Idle]

Init ==
    /\ CacheInit
    /\ arg = <<>>
    /\ ret = <<>>

----------------------------------------------------------------------------
\* The external producer

ProducerWrite(f) ==
    /\ \E m \in Mtimes, s \in {"ok", "bad"} :
          /\ [mtime |-> m, st |-> s] # files[f]
          /\ files' = [files EXCEPT ![f] = [mtime |-> m, st |-> s]]
    /\ UNCHANGED <<shared, started, loads_stored, th, arg, ret>>

ProducerDelete(f) ==
    /\ files[f].st # "missing"
    /\ files' = [files EXCEPT ![f] = [mtime |-> 1, st |-> "missing"]]
    /\ UNCHANGED <<shared, started, loads_stored, th, arg, ret>>

----------------------------------------------------------------------------
\* get_cache_key_lock

\* the lock is made without the second check
KeyLockMissingUnchecked(k) == TRUE

\* line 71: the second check, under CACHE_LOCK
KeyLockMissing(k) == k \notin DOMAIN CACHE_KEY_LOCKS

\* threading.Lock(): a lock object that did not exist before
NewLock(k) == <<k, 1 + Cardinality({l \in DOMAIN lockOwner : l[1] = k})>>

\* line 69, and line 73 when the key is known
GetLockCheck(t) ==
    /\ At(t, "gl_check")
    /\ IF th[t].cache_key \in DOMAIN CACHE_KEY_LOCKS
       THEN Set(t, [th[t] EXCEPT !.pc = "acquire",
                                 !.cache_key_lock = CACHE_KEY_LOCKS[th[t].cache_key]])
       ELSE Goto(t, "gl_enter")
    /\ UNCHANGED <<shared, files, arg, ret, started, loads_stored>>

\* line 70: with CACHE_LOCK
GetLockEnter(t) ==
    /\ At(t, "gl_enter")
    /\ CACHE_LOCK = None
    /\ CACHE_LOCK' = t
    /\ Goto(t, "gl_create")
    /\ UNCHANGED <<DATA_CACHE, LAST_MODIFIED, CACHE_KEY_LOCKS, lockOwner, data_version, files, arg, ret, started, loads_stored>>

\* lines 71-72 and the end of the with block
GetLockCreate(t) ==
    /\ At(t, "gl_create")
    /\ IF KeyLockMissing(th[t].cache_key)
       THEN /\ lockOwner' = Put(lockOwner, NewLock(th[t].cache_key), None)
            /\ CACHE_KEY_LOCKS' = Put(CACHE_KEY_LOCKS, th[t].cache_key, NewLock(th[t].cache_key))
       ELSE UNCHANGED <<lockOwner, CACHE_KEY_LOCKS>>
    /\ CACHE_LOCK' = None
    /\ Goto(t, "gl_return")
    /\ UNCHANGED <<DATA_CACHE, LAST_MODIFIED, data_version, files, arg, ret, started, loads_stored>>

\* line 73
GetLockReturn(t) ==
    /\ At(t, "gl_return")
    /\ Set(t, [th[t] EXCEPT !.pc = "acquire",
                            !.cache_key_lock = CACHE_KEY_LOCKS[th[t].cache_key]])
    /\ UNCHANGED <<shared, files, arg, ret, started, loads_stored>>

\* a lock that excludes nobody
LockNeverHeld(l) == TRUE

\* a threading.Lock can be taken when no thread holds it
LockFree(l) == lockOwner[l] = None

\* with cache_key_lock: entering the block of the running operation
AfterAcquire(o) ==
    CASE o = "get" -> "gb_check"
      [] o = "refresh" -> "rf_check"
      [] o = "summary" -> "ps_check"
      [] o = "returns" -> "pr_check"

AcquireKeyLock(t) ==
    /\ At(t, "acquire")
    /\ LockFree(th[t].cache_key_lock)
    /\ lockOwner' = [lockOwner EXCEPT ![th[t].cache_key_lock] = t]
    /\ Goto(t, AfterAcquire(th[t].op))
    /\ UNCHANGED <<DATA_CACHE, LAST_MODIFIED, CACHE_LOCK, CACHE_KEY_LOCKS, data_version, files, arg, ret, started, loads_stored>>

\* the lock is still held when the block is left
ReleaseNever(t) == UNCHANGED lockOwner

\* leaving the with block
Release(t) == lockOwner' = [lockOwner EXCEPT ![th[t].cache_key_lock] = None]


\* the check of df.empty is left out
emptyNever(d) == FALSE

\* df.empty
empty(d) == d = EmptyDf

\* the source file is there: os.listdir names it and os.path.getmtime does not raise
Exists(f) == files[f].st # "missing"

Finish(t) ==
    /\ At(t, "ret")
    /\ Set(t, Idle)
    /\ UNCHANGED <<shared, files, arg, ret, started, loads_stored>>

----------------------------------------------------------------------------
\* get_bucket_data

\* lines 857-965: find the source file, build the cache key
GetBucketDataStart(t, f) ==
    /\ At(t, "idle")
    /\ IF Exists(f)
       THEN Set(t, [Idle EXCEPT !.pc = "gl_check", !.op = "get", !.cache_key = SlashKey(f)])
       ELSE Set(t, [Idle EXCEPT !.pc = "ret", !.op = "get", !.status = "404"])
    /\ Begin /\ UNCHANGED <<shared, files, arg, ret, loads_stored>>

\* >= in place of >
IsStaleOrSame(k, m) == m >= LAST_MODIFIED[k]

\* line 979
IsStale(k, m) == m > LAST_MODIFIED[k]

\* lines 967 and 976-979, under the key lock
GetBucketDataCheck(t) ==
    LET k == th[t].cache_key
        f == FileOf(k)
    IN  /\ At(t, "gb_check")
        /\ IF ~Has(DATA_CACHE, k) \/ k \notin DOMAIN LAST_MODIFIED
           THEN Goto(t, "gb_load_first") /\ UNCHANGED lockOwner
           ELSE IF ~Exists(f)
                THEN Set(t, Return(t, "500")) /\ Release(t)
                ELSE IF IsStale(k, files[f].mtime)
                     THEN /\ Set(t, [th[t] EXCEPT !.pc = "gb_reload",
                                                  !.current_mtime = files[f].mtime])
                          /\ UNCHANGED lockOwner
                     ELSE Goto(t, "gb_read") /\ Release(t)
        /\ UNCHANGED <<DATA_CACHE, LAST_MODIFIED, CACHE_LOCK, CACHE_KEY_LOCKS, data_version, files, arg, ret, started, loads_stored>>

\* lines 969-971
GetBucketDataLoadFirst(t) ==
    LET d == load_csv_data_from_path(th[t].cache_key)
    IN  /\ At(t, "gb_load_first")
        /\ IF empty(d)
           THEN Set(t, Return(t, "500")) /\ Release(t)
           ELSE Set(t, [th[t] EXCEPT !.pc = "gb_store_first", !.df = d]) /\ UNCHANGED lockOwner
        /\ UNCHANGED <<DATA_CACHE, LAST_MODIFIED, CACHE_LOCK, CACHE_KEY_LOCKS, data_version, files, arg, ret, started, loads_stored>>

\* lines 972-973: os.path.getmtime raises when the file has gone
GetBucketDataStoreFirst(t) ==
    LET k == th[t].cache_key
        f == FileOf(k)
    IN  /\ At(t, "gb_store_first")
        /\ DATA_CACHE' = Put(DATA_CACHE, k, CacheVal(k, th[t].df))
        /\ IF Exists(f)
           THEN /\ LAST_MODIFIED' = Put(LAST_MODIFIED, k, files[f].mtime)
                /\ Goto(t, "gb_version_read")
                /\ UNCHANGED lockOwner
           ELSE /\ UNCHANGED LAST_MODIFIED
                /\ Set(t, Return(t, "500"))
                /\ Release(t)
        /\ UNCHANGED <<CACHE_LOCK, CACHE_KEY_LOCKS, data_version, files, arg, ret, started>>
        /\ loads_stored' = loads_stored + 1

\* lines 980-981
GetBucketDataReload(t) ==
    LET d == load_csv_data_from_path(th[t].cache_key)
    IN  /\ At(t, "gb_reload")
        /\ IF ~empty(d)
           THEN Set(t, [th[t] EXCEPT !.pc = "gb_store_reload", !.df = d]) /\ UNCHANGED lockOwner
           ELSE Set(t, [th[t] EXCEPT !.pc = "gb_read", !.df = d]) /\ Release(t)
        /\ UNCHANGED <<DATA_CACHE, LAST_MODIFIED, CACHE_LOCK, CACHE_KEY_LOCKS, data_version, files, arg, ret, started, loads_stored>>

\* line 983 is left out: the reload does not record the modification time
GetBucketDataStoreReloadNoMtime(t) ==
    LET k == th[t].cache_key
    IN  /\ At(t, "gb_store_reload")
        /\ DATA_CACHE' = Put(DATA_CACHE, k, CacheVal(k, th[t].df))
        /\ Goto(t, "gb_version_read")
        /\ UNCHANGED <<LAST_MODIFIED, CACHE_LOCK, CACHE_KEY_LOCKS, lockOwner, data_version, files, arg, ret, started>>
        /\ loads_stored' = loads_stored + 1

\* lines 982-983
GetBucketDataStoreReload(t) ==
    LET k == th[t].cache_key
    IN  /\ At(t, "gb_store_reload")
        /\ DATA_CACHE' = Put(DATA_CACHE, k, CacheVal(k, th[t].df))
        /\ LAST_MODIFIED' = Put(LAST_MODIFIED, k, th[t].current_mtime)
        /\ Goto(t, "gb_version_read")
        /\ UNCHANGED <<CACHE_LOCK, CACHE_KEY_LOCKS, lockOwner, data_version, files, arg, ret, started>>
        /\ loads_stored' = loads_stored + 1

\* lines 974 and 984, data_version += 1: the read of the global
GetBucketDataVersionRead(t) ==
    /\ At(t, "gb_version_read")
    /\ Set(t, [th[t] EXCEPT !.pc = "gb_version_write", !.tmp = data_version])
    /\ UNCHANGED <<shared, files, arg, ret, started, loads_stored>>

\* lines 974-975 and 984-985: the write of the global, then the with block ends
GetBucketDataVersionWrite(t) ==
    /\ At(t, "gb_version_write")
    /\ data_version' = th[t].tmp + 1
    /\ Release(t)
    /\ Goto(t, "gb_read")
    /\ UNCHANGED <<DATA_CACHE, LAST_MODIFIED, CACHE_LOCK, CACHE_KEY_LOCKS, files, arg, ret, started, loads_stored>>

\* line 988
GetBucketDataRead(t) ==
    /\ At(t, "gb_read")
    /\ Set(t, [th[t] EXCEPT !.pc = "gb_metrics", !.df = Ref(Get(DATA_CACHE, th[t].cache_key))])
    /\ UNCHANGED <<shared, files, arg, ret, started, loads_stored>>

\* line 994: calculate_metrics reads df
GetBucketDataMetrics(t) ==
    /\ At(t, "gb_metrics")
    /\ Set(t, [th[t] EXCEPT !.pc = "gb_respond",
                            !.view = <<ReadThrough(th[t].cache_key, th[t].df)>>])
    /\ UNCHANGED <<shared, files, arg, ret, started, loads_stored>>

\* lines 996-1021: the resampling and the response read df again
GetBucketDataRespond(t) ==
    /\ At(t, "gb_respond")
    /\ Set(t, [Return(t, "200") EXCEPT
                  !.view = Append(th[t].view, ReadThrough(th[t].cache_key, th[t].df))])
    /\ UNCHANGED <<shared, files, arg, ret, started, loads_stored>>

----------------------------------------------------------------------------
\* get_bucket_data_since

\* a key that is not cached is loaded from its source file, as get_bucket_data does
GetBucketDataSinceStartLoading(t, f) ==
    LET k == SlashKey(f)
        d == load_csv_data_from_path(k)
        first == ~Has(DATA_CACHE, k) /\ Exists(f) /\ ~empty(d)
    IN  /\ At(t, "idle")
        /\ IF Has(DATA_CACHE, k) \/ first
           THEN Set(t, [Idle EXCEPT !.pc = "gs_read", !.op = "since", !.cache_key = k])
           ELSE Set(t, [Idle EXCEPT !.pc = "ret", !.op = "since", !.cache_key = k,
                                    !.status = "404"])
        /\ DATA_CACHE' = IF first THEN Put(DATA_CACHE, k, CacheVal(k, d)) ELSE DATA_CACHE
        /\ LAST_MODIFIED' = IF first THEN Put(LAST_MODIFIED, k, files[f].mtime)
                             ELSE LAST_MODIFIED
        /\ Begin
        /\ UNCHANGED <<CACHE_LOCK, CACHE_KEY_LOCKS, lockOwner, data_version, files, arg, ret,
                       loads_stored>>

\* lines 1026-1073
GetBucketDataSinceStart(t, f) ==
    /\ At(t, "idle")
    /\ IF Has(DATA_CACHE, SlashKey(f))
       THEN Set(t, [Idle EXCEPT !.pc = "gs_read", !.op = "since", !.cache_key = SlashKey(f)])
       ELSE Set(t, [Idle EXCEPT !.pc = "ret", !.op = "since", !.cache_key = SlashKey(f),
                                !.status = "404"])
    /\ Begin /\ UNCHANGED <<shared, files, arg, ret, loads_stored>>

\* the incremental read refreshes a stale entry first, as get_bucket_data does
GetBucketDataSinceReadRefreshing(t) ==
    LET k == th[t].cache_key
        f == FileOf(k)
        d == load_csv_data_from_path(k)
        stale == /\ k \in DOMAIN LAST_MODIFIED /\ Exists(f)
                 /\ files[f].mtime > LAST_MODIFIED[k] /\ ~empty(d)
    IN  /\ At(t, "gs_read")
        /\ DATA_CACHE' = IF stale THEN Put(DATA_CACHE, k, CacheVal(k, d)) ELSE DATA_CACHE
        /\ LAST_MODIFIED' = IF stale THEN Put(LAST_MODIFIED, k, files[f].mtime) ELSE LAST_MODIFIED
        /\ Set(t, [th[t] EXCEPT !.pc = "gs_filter", !.df = Ref(DATA_CACHE'[k])])
        /\ UNCHANGED <<CACHE_LOCK, CACHE_KEY_LOCKS, lockOwner, data_version, files, arg, ret, started, loads_stored>>

\* line 1075
GetBucketDataSinceRead(t) ==
    /\ At(t, "gs_read")
    /\ Set(t, [th[t] EXCEPT !.pc = "gs_filter", !.df = Ref(Get(DATA_CACHE, th[t].cache_key))])
    /\ UNCHANGED <<shared, files, arg, ret, started, loads_stored>>

\* lines 1079-1094: new_data is a copy of the rows behind the watermark
GetBucketDataSinceFilter(t) ==
    /\ At(t, "gs_filter")
    /\ Set(t, [Return(t, "200") EXCEPT !.view = <<ReadThrough(th[t].cache_key, th[t].df)>>])
    /\ UNCHANGED <<shared, files, arg, ret, started, loads_stored>>

----------------------------------------------------------------------------
\* refresh_data_cache

RefreshStart(t) ==
    /\ At(t, "idle")
    /\ Set(t, [Idle EXCEPT !.pc = "rf_enter", !.op = "refresh"])
    /\ Begin /\ UNCHANGED <<shared, files, arg, ret, loads_stored>>

\* line 238: with CACHE_LOCK
RefreshEnter(t) ==
    /\ At(t, "rf_enter")
    /\ CACHE_LOCK = None
    /\ CACHE_LOCK' = t
    /\ Goto(t, "rf_snapshot")
    /\ UNCHANGED <<DATA_CACHE, LAST_MODIFIED, CACHE_KEY_LOCKS, lockOwner, data_version, files, arg, ret, started, loads_stored>>

\* the whole refresh runs inside the with block
AfterSnapshotStillHeld(t) == t

\* the holder of CACHE_LOCK once the with block of lines 238-239 has ended
AfterSnapshot(t) == None

\* the keys to process are those of the source files the directory holds
RefreshSnapshotOfDirectory(t) ==
    /\ At(t, "rf_snapshot")
    /\ \E ks \in KeyLists([k \in {SlashKey(f) : f \in {g \in Files : Exists(g)}} |-> 0]) :
          Set(t, [th[t] EXCEPT !.pc = "rf_next", !.cache_keys_to_process = ks])
    /\ CACHE_LOCK' = AfterSnapshot(t)
    /\ UNCHANGED <<DATA_CACHE, LAST_MODIFIED, CACHE_KEY_LOCKS, lockOwner, data_version, files, arg, ret, started, loads_stored>>

\* line 239
RefreshSnapshot(t) ==
    /\ At(t, "rf_snapshot")
    /\ \E ks \in KeyLists(DATA_CACHE) :
          Set(t, [th[t] EXCEPT !.pc = "rf_next", !.cache_keys_to_process = ks])
    /\ CACHE_LOCK' = AfterSnapshot(t)
    /\ UNCHANGED <<DATA_CACHE, LAST_MODIFIED, CACHE_KEY_LOCKS, lockOwner, data_version, files, arg, ret, started, loads_stored>>

RECURSIVE SkipOtherKeys(_)
\* lines 242-243: the keys that are not bucket/TS-ID keys are passed over
SkipOtherKeys(ks) ==
    IF ks = <<>> \/ IsBucketKey(Head(ks)) THEN ks ELSE SkipOtherKeys(Tail(ks))

\* lines 242-244: the next key of the snapshot
RefreshNext(t) ==
    LET ks == SkipOtherKeys(th[t].cache_keys_to_process)
    IN  /\ At(t, "rf_next")
        /\ IF ks = <<>>
           THEN Set(t, [Return(t, "done") EXCEPT !.cache_keys_to_process = <<>>])
           ELSE Set(t, [th[t] EXCEPT !.pc = "gl_check", !.cache_key = Head(ks),
                                     !.cache_keys_to_process = Tail(ks),
                                     !.cache_key_lock = <<>>, !.df = NoDf,
                                     !.current_mtime = 0, !.tmp = 0])
        /\ UNCHANGED <<shared, files, arg, ret, started, loads_stored>>

\* line 265
RefreshIsStale(k, m) ==
    (IF k \in DOMAIN LAST_MODIFIED THEN LAST_MODIFIED[k] ELSE 0) < m

\* lines 246-265 and 273-275, under the key lock
RefreshCheck(t) ==
    LET k == th[t].cache_key
        f == FileOf(k)
    IN  /\ At(t, "rf_check")
        /\ IF Exists(f) /\ RefreshIsStale(k, files[f].mtime)
           THEN /\ Set(t, [th[t] EXCEPT !.pc = "rf_load", !.current_mtime = files[f].mtime])
                /\ UNCHANGED lockOwner
           ELSE Goto(t, "rf_next") /\ Release(t)
        /\ UNCHANGED <<DATA_CACHE, LAST_MODIFIED, CACHE_LOCK, CACHE_KEY_LOCKS, data_version, files, arg, ret, started, loads_stored>>

\* lines 266-267
RefreshLoad(t) ==
    LET d == load_csv_data_from_path(th[t].cache_key)
    IN  /\ At(t, "rf_load")
        /\ IF ~empty(d)
           THEN Set(t, [th[t] EXCEPT !.pc = "rf_store", !.df = d]) /\ UNCHANGED lockOwner
           ELSE Set(t, [th[t] EXCEPT !.pc = "rf_next", !.df = d]) /\ Release(t)
        /\ UNCHANGED <<DATA_CACHE, LAST_MODIFIED, CACHE_LOCK, CACHE_KEY_LOCKS, data_version, files, arg, ret, started, loads_stored>>

\* lines 268-269
RefreshStore(t) ==
    LET k == th[t].cache_key
    IN  /\ At(t, "rf_store")
        /\ DATA_CACHE' = Put(DATA_CACHE, k, CacheVal(k, th[t].df))
        /\ LAST_MODIFIED' = Put(LAST_MODIFIED, k, th[t].current_mtime)
        /\ Goto(t, "rf_version_read")
        /\ UNCHANGED <<CACHE_LOCK, CACHE_KEY_LOCKS, lockOwner, data_version, files, arg, ret, started>>
        /\ loads_stored' = loads_stored + 1

\* line 271, data_version += 1: the read of the global
RefreshVersionRead(t) ==
    /\ At(t, "rf_version_read")
    /\ Set(t, [th[t] EXCEPT !.pc = "rf_version_write", !.tmp = data_version])
    /\ UNCHANGED <<shared, files, arg, ret, started, loads_stored>>

\* lines 271-275: the write of the global, then break leaves the with block
RefreshVersionWrite(t) ==
    /\ At(t, "rf_version_write")
    /\ data_version' = th[t].tmp + 1
    /\ Release(t)
    /\ Goto(t, "rf_next")
    /\ UNCHANGED <<DATA_CACHE, LAST_MODIFIED, CACHE_LOCK, CACHE_KEY_LOCKS, files, arg, ret, started, loads_stored>>

----------------------------------------------------------------------------
\* get_symbols_summary: one process_symbol task

\* lines 1122-1132: discover_symbols_in_bucket listed the file
SummaryStart(t, f) ==
    /\ At(t, "idle")
    /\ Exists(f)
    /\ Set(t, [Idle EXCEPT !.pc = "gl_check", !.op = "summary", !.cache_key = SlashKey(f)])
    /\ Begin /\ UNCHANGED <<shared, files, arg, ret, loads_stored>>

\* a cached entry that is older than the source is loaded again
SummaryCheckReloading(t) ==
    LET k == th[t].cache_key
        f == FileOf(k)
        fresh == /\ Has(DATA_CACHE, k)
                 /\ ~(k \in DOMAIN LAST_MODIFIED /\ Exists(f) /\ IsStale(k, files[f].mtime))
    IN  /\ At(t, "ps_check")
        /\ IF fresh
           THEN Set(t, [th[t] EXCEPT !.pc = "ps_metrics", !.df = Ref(Get(DATA_CACHE, k))])
                /\ Release(t)
           ELSE Goto(t, "ps_load") /\ UNCHANGED lockOwner
        /\ UNCHANGED <<DATA_CACHE, LAST_MODIFIED, CACHE_LOCK, CACHE_KEY_LOCKS, data_version, files, arg, ret, started, loads_stored>>

\* lines 1133-1136
SummaryCheck(t) ==
    LET k == th[t].cache_key
    IN  /\ At(t, "ps_check")
        /\ IF Has(DATA_CACHE, k)
           THEN Set(t, [th[t] EXCEPT !.pc = "ps_metrics", !.df = Ref(Get(DATA_CACHE, k))])
                /\ Release(t)
           ELSE Goto(t, "ps_load") /\ UNCHANGED lockOwner
        /\ UNCHANGED <<DATA_CACHE, LAST_MODIFIED, CACHE_LOCK, CACHE_KEY_LOCKS, data_version, files, arg, ret, started, loads_stored>>

\* lines 1137-1139 and 1143: an empty df gives no record
SummaryLoad(t) ==
    LET d == load_csv_data_from_path(th[t].cache_key)
    IN  /\ At(t, "ps_load")
        /\ IF ~empty(d)
           THEN Set(t, [th[t] EXCEPT !.pc = "ps_store", !.df = d]) /\ UNCHANGED lockOwner
           ELSE Set(t, [Return(t, "none") EXCEPT !.df = d]) /\ Release(t)
        /\ UNCHANGED <<DATA_CACHE, LAST_MODIFIED, CACHE_LOCK, CACHE_KEY_LOCKS, data_version, files, arg, ret, started, loads_stored>>

\* lines 1140-1141, and 1210-1212 when os.path.getmtime raises
SummaryStore(t) ==
    LET k == th[t].cache_key
        f == FileOf(k)
    IN  /\ At(t, "ps_store")
        /\ DATA_CACHE' = Put(DATA_CACHE, k, CacheVal(k, th[t].df))
        /\ IF Exists(f)
           THEN /\ LAST_MODIFIED' = Put(LAST_MODIFIED, k, files[f].mtime)
                /\ Goto(t, "ps_metrics")
           ELSE /\ UNCHANGED LAST_MODIFIED
                /\ Set(t, Return(t, "none"))
        /\ Release(t)
        /\ UNCHANGED <<CACHE_LOCK, CACHE_KEY_LOCKS, data_version, files, arg, ret, started>>
        /\ loads_stored' = loads_stored + 1

\* lines 1143-1169: the prices, the position and the returns are read from df
SummaryMetrics(t) ==
    /\ At(t, "ps_metrics")
    /\ Set(t, [th[t] EXCEPT !.pc = "ps_date",
                            !.view = <<ReadThrough(th[t].cache_key, th[t].df)>>])
    /\ UNCHANGED <<shared, files, arg, ret, started, loads_stored>>

\* df['date'] = ... on the object d of key k: the cache holds that object
SetDate(k, d) ==
    IF Has(DATA_CACHE, k) /\ Get(DATA_CACHE, k).id = d.id
    THEN Put(DATA_CACHE, k, [Get(DATA_CACHE, k) EXCEPT !.date = TRUE])
    ELSE DATA_CACHE

\* line 1175
SummaryDate(t) ==
    /\ At(t, "ps_date")
    /\ DATA_CACHE' = SetDate(th[t].cache_key, th[t].df)
    /\ Goto(t, "ps_daily")
    /\ UNCHANGED <<LAST_MODIFIED, CACHE_LOCK, CACHE_KEY_LOCKS, lockOwner, data_version, files, arg, ret, started, loads_stored>>

\* lines 1176-1209
SummaryDaily(t) ==
    /\ At(t, "ps_daily")
    /\ Set(t, [Return(t, "record") EXCEPT
                  !.view = Append(th[t].view, ReadThrough(th[t].cache_key, th[t].df))])
    /\ UNCHANGED <<shared, files, arg, ret, started, loads_stored>>

----------------------------------------------------------------------------
\* get_all_cumulative_returns: one process_symbol_returns task

\* lines 1339-1344 and 1418-1422
ReturnsStart(t, f) ==
    /\ At(t, "idle")
    /\ Exists(f)
    /\ Set(t, [Idle EXCEPT !.pc = "gl_check", !.op = "returns", !.cache_key = UnderKey(f)])
    /\ Begin /\ UNCHANGED <<shared, files, arg, ret, loads_stored>>

\* lines 1347-1351
ReturnsCheck(t) ==
    LET k == th[t].cache_key
    IN  /\ At(t, "pr_check")
        /\ IF Has(DATA_CACHE, k)
           THEN Set(t, [th[t] EXCEPT !.pc = "pr_sample", !.df = Ref(Get(DATA_CACHE, k))])
                /\ Release(t)
           ELSE Goto(t, "pr_load") /\ UNCHANGED lockOwner
        /\ UNCHANGED <<DATA_CACHE, LAST_MODIFIED, CACHE_LOCK, CACHE_KEY_LOCKS, data_version, files, arg, ret, started, loads_stored>>

\* lines 1352-1355
ReturnsLoad(t) ==
    LET d == load_csv_data_from_path(th[t].cache_key)
    IN  /\ At(t, "pr_load")
        /\ IF empty(d)
           THEN Set(t, [Return(t, "none") EXCEPT !.df = d]) /\ Release(t)
           ELSE Set(t, [th[t] EXCEPT !.pc = "pr_store", !.df = d]) /\ UNCHANGED lockOwner
        /\ UNCHANGED <<DATA_CACHE, LAST_MODIFIED, CACHE_LOCK, CACHE_KEY_LOCKS, data_version, files, arg, ret, started, loads_stored>>

\* line 1357
ReturnsStore(t) ==
    /\ At(t, "pr_store")
    /\ DATA_CACHE' = Put(DATA_CACHE, th[t].cache_key, CacheVal(th[t].cache_key, th[t].df))
    /\ Release(t)
    /\ Goto(t, "pr_sample")
    /\ UNCHANGED <<LAST_MODIFIED, CACHE_LOCK, CACHE_KEY_LOCKS, data_version, files, arg, ret, started>>
    /\ loads_stored' = loads_stored + 1

\* lines 1360-1404: df.copy() or df.iloc[::step].copy() reads df
ReturnsSample(t) ==
    /\ At(t, "pr_sample")
    /\ Set(t, [Return(t, "record") EXCEPT !.view = <<ReadThrough(th[t].cache_key, th[t].df)>>])
    /\ UNCHANGED <<shared, files, arg, ret, started, loads_stored>>

----------------------------------------------------------------------------

Next ==
    \/ \E f \in Rewritten : ProducerWrite(f)
    \/ \E f \in Rewritten : ProducerDelete(f)
    \/ \E t \in Threads, f \in Files : GetBucketDataStart(t, f)
    \/ \E t \in Threads, f \in Files : GetBucketDataSinceStart(t, f)
    \/ \E t \in Threads : RefreshStart(t)
    \/ \E t \in Threads, f \in Files : SummaryStart(t, f)
    \/ \E t \in Threads : GetLockCheck(t)
    \/ \E t \in Threads : GetLockEnter(t)
    \/ \E t \in Threads : GetLockCreate(t)
    \/ \E t \in Threads : GetLockReturn(t)
    \/ \E t \in Threads : AcquireKeyLock(t)
    \/ \E t \in Threads : GetBucketDataCheck(t)
    \/ \E t \in Threads : GetBucketDataLoadFirst(t)
    \/ \E t \in Threads : GetBucketDataStoreFirst(t)
    \/ \E t \in Threads : GetBucketDataReload(t)
    \/ \E t \in Threads : GetBucketDataStoreReload(t)
    \/ \E t \in Threads : GetBucketDataVersionRead(t)
    \/ \E t \in Threads : GetBucketDataVersionWrite(t)
    \/ \E t \in Threads : GetBucketDataRead(t)
    \/ \E t \in Threads : GetBucketDataMetrics(t)
    \/ \E t \in Threads : GetBucketDataRespond(t)
    \/ \E t \in Threads : GetBucketDataSinceRead(t)
    \/ \E t \in Threads : GetBucketDataSinceFilter(t)
    \/ \E t \in Threads : RefreshEnter(t)
    \/ \E t \in Threads : RefreshSnapshot(t)
    \/ \E t \in Threads : RefreshNext(t)
    \/ \E t \in Threads : RefreshCheck(t)
    \/ \E t \in Threads : RefreshLoad(t)
    \/ \E t \in Threads : RefreshStore(t)
    \/ \E t \in Threads : RefreshVersionRead(t)
    \/ \E t \in Threads : RefreshVersionWrite(t)
    \/ \E t \in Threads : SummaryCheck(t)
    \/ \E t \in Threads : SummaryLoad(t)
    \/ \E t \in Threads : SummaryStore(t)
    \/ \E t \in Threads : SummaryMetrics(t)
    \/ \E t \in Threads : SummaryDate(t)
    \/ \E t \in Threads : SummaryDaily(t)
    \/ \E t \in Threads : Finish(t)

\* The cache manager and the summary: every operation that works on the keys
\* bucket/TS-ID.  get_all_cumulative_returns works on keys of its own, which no other
\* operation reads or writes; it is followed in SpecReturns.
Spec == Init /\ [][Next]_vars

NextReturns ==
    \/ \E f \in Rewritten : ProducerWrite(f)
    \/ \E f \in Rewritten : ProducerDelete(f)
    \/ \E t \in Threads, f \in Rewritten : GetBucketDataStart(t, f)
    \/ \E t \in Threads, f \in Rewritten : GetBucketDataSinceStart(t, f)
    \/ \E t \in Threads : RefreshStart(t)
    \/ \E t \in Threads, f \in Rewritten : SummaryStart(t, f)
    \/ \E t \in Threads, f \in Rewritten : ReturnsStart(t, f)
    \/ \E t \in Threads : GetLockCheck(t)
    \/ \E t \in Threads : GetLockEnter(t)
    \/ \E t \in Threads : GetLockCreate(t)
    \/ \E t \in Threads : GetLockReturn(t)
    \/ \E t \in Threads : AcquireKeyLock(t)
    \/ \E t \in Threads : GetBucketDataCheck(t)
    \/ \E t \in Threads : GetBucketDataLoadFirst(t)
    \/ \E t \in Threads : GetBucketDataStoreFirst(t)
    \/ \E t \in Threads : GetBucketDataReload(t)
    \/ \E t \in Threads : GetBucketDataStoreReload(t)
    \/ \E t \in Threads : GetBucketDataVersionRead(t)
    \/ \E t \in Threads : GetBucketDataVersionWrite(t)
    \/ \E t \in Threads : GetBucketDataRead(t)
    \/ \E t \in Threads : GetBucketDataMetrics(t)
    \/ \E t \in Threads : GetBucketDataRespond(t)
    \/ \E t \in Threads : GetBucketDataSinceRead(t)
    \/ \E t \in Threads : GetBucketDataSinceFilter(t)
    \/ \E t \in Threads : RefreshEnter(t)
    \/ \E t \in Threads : RefreshSnapshot(t)
    \/ \E t \in Threads : RefreshNext(t)
    \/ \E t \in Threads : RefreshCheck(t)
    \/ \E t \in Threads : RefreshLoad(t)
    \/ \E t \in Threads : RefreshStore(t)
    \/ \E t \in Threads : RefreshVersionRead(t)
    \/ \E t \in Threads : RefreshVersionWrite(t)
    \/ \E t \in Threads : SummaryCheck(t)
    \/ \E t \in Threads : SummaryLoad(t)
    \/ \E t \in Threads : SummaryStore(t)
    \/ \E t \in Threads : SummaryMetrics(t)
    \/ \E t \in Threads : SummaryDate(t)
    \/ \E t \in Threads : SummaryDaily(t)
    \/ \E t \in Threads : ReturnsCheck(t)
    \/ \E t \in Threads : ReturnsLoad(t)
    \/ \E t \in Threads : ReturnsStore(t)
    \/ \E t \in Threads : ReturnsSample(t)
    \/ \E t \in Threads : Finish(t)

\* Every operation, get_all_cumulative_returns included, on the file TS-1.
SpecReturns == Init /\ [][NextReturns]_vars

----------------------------------------------------------------------------
\* Where a thread is

\* inside "with cache_key_lock"
SectionPcs == {"gb_check", "gb_load_first", "gb_store_first", "gb_reload", "gb_store_reload",
               "gb_version_read", "gb_version_write",
               "rf_check", "rf_load", "rf_store", "rf_version_read", "rf_version_write",
               "ps_check", "ps_load", "ps_store",
               "pr_check", "pr_load", "pr_store"}
\* loading a series or storing the loaded series
LoadPcs == {"gb_load_first", "gb_store_first", "gb_reload", "gb_store_reload",
            "rf_load", "rf_store", "ps_load", "ps_store", "pr_load", "pr_store"}
\* the reload of a cached key: between the staleness check and the store
ReloadPcs == {"gb_reload", "gb_store_reload", "rf_load", "rf_store"}

InSection(t) == th[t].pc \in SectionPcs
Loading(t) == th[t].pc \in LoadPcs
Reloading(t) == th[t].pc \in ReloadPcs
\* thread t takes a step
Steps(t) == th'[t] # th[t]

----------------------------------------------------------------------------
\* C3: threads that call get_cache_key_lock for the first time on the same unknown key
\* all receive the same lock object (the one CACHE_KEY_LOCKS holds), and
\* CACHE_KEY_LOCKS[key] is never replaced once set.
C3_SameLockForAll ==
    [][/\ \A k \in DOMAIN CACHE_KEY_LOCKS :
             k \in DOMAIN CACHE_KEY_LOCKS' /\ CACHE_KEY_LOCKS'[k] = CACHE_KEY_LOCKS[k]
       /\ \A t \in Threads :
             th'[t].cache_key_lock # <<>> =>
                 th'[t].cache_key_lock = CACHE_KEY_LOCKS'[th'[t].cache_key]]_vars

\* a thread that found the key unknown at line 69 finds, under CACHE_LOCK, that
\* another thread has published the lock meanwhile
C3_Witness ==
    \E t \in Threads : At(t, "gl_create") /\ th[t].cache_key \in DOMAIN CACHE_KEY_LOCKS

----------------------------------------------------------------------------
\* C2: at most one thread is loading or storing the series of a given cache key, and
\* every load of get_bucket_data, refresh_data_cache and process_symbol happens while
\* the thread holds that key's lock.
C2_OneLoadPerKey ==
    \A t \in Threads :
        Loading(t) =>
            /\ th[t].cache_key_lock = CACHE_KEY_LOCKS[th[t].cache_key]
            /\ lockOwner[th[t].cache_key_lock] = t
            /\ \A u \in Threads \ {t} : Loading(u) => th[u].cache_key # th[t].cache_key

\* one thread loads a key while another one waits for that key's lock
C2_Witness ==
    \E t, u \in Threads :
        /\ Loading(t)
        /\ At(u, "acquire")
        /\ th[u].cache_key = th[t].cache_key

----------------------------------------------------------------------------
\* C4: CACHE_LOCK is held only to publish a per-key lock or to snapshot the key list,
\* never while load_csv_data_from_path runs, and a thread that waits for a per-key
\* lock waits for a thread that works on the same key.
C4_NoSharedBlocking ==
    /\ \A t \in Threads : CACHE_LOCK = t => th[t].pc \in {"gl_create", "rf_snapshot"}
    /\ \A t \in Threads : Loading(t) => CACHE_LOCK # t
    /\ \A t \in Threads :
          At(t, "acquire") /\ lockOwner[th[t].cache_key_lock] # None =>
              th[lockOwner[th[t].cache_key_lock]].cache_key = th[t].cache_key

\* while one thread loads key B, another thread finds the lock of key A free
C4_Witness ==
    \E t, u \in Threads :
        /\ Loading(u)
        /\ At(t, "acquire")
        /\ th[t].cache_key # th[u].cache_key
        /\ LockFree(th[t].cache_key_lock)

----------------------------------------------------------------------------
\* C5: what a reader reads of a series, over all its reads of it, comes from one
\* complete load: the series as it was before a reload or as it is after, never both.
C5_NoMixedSnapshot ==
    \A t \in Threads :
        \A i, j \in DOMAIN th[t].view :
            th[t].view[i] = th[t].view[j] /\ th[t].view[i] \in Mtimes

\* a reader between its two reads of a series that a reload has replaced meanwhile
C5_Witness ==
    \E t \in Threads :
        /\ At(t, "gb_respond")
        /\ Get(DATA_CACHE, th[t].cache_key).id # th[t].df.id
        /\ Get(DATA_CACHE, th[t].cache_key).content # th[t].view[1]

----------------------------------------------------------------------------
\* C6: a series stored in DATA_CACHE is never mutated in place: as long as
\* DATA_CACHE[key] is the same object, that object is unchanged.
C6_NeverMutatedInPlace ==
    [][\A k \in DOMAIN DATA_CACHE :
           DATA_CACHE'[k].id = DATA_CACHE[k].id => DATA_CACHE'[k] = DATA_CACHE[k]]_vars

----------------------------------------------------------------------------
\* C7: when the reload of a cached key yields an empty series, DATA_CACHE,
\* LAST_MODIFIED and data_version are left as they are, and get_bucket_data goes on to
\* answer 200 from the entry the cache holds.
C7_FailedReloadKeepsEntry ==
    [][\A t \in Threads :
          /\ (th[t].pc \in {"gb_reload", "rf_load"} /\ Steps(t) /\ th'[t].df = EmptyDf) =>
                 /\ UNCHANGED <<DATA_CACHE, LAST_MODIFIED, data_version>>
                 /\ th'[t].pc = IF th[t].op = "get" THEN "gb_read" ELSE "rf_next"
          /\ (th[t].op = "get" /\ th[t].current_mtime # 0 /\ th'[t].pc = "ret" /\ Steps(t)) =>
                 /\ th'[t].status = "200"
                 /\ th'[t].df # EmptyDf
                 /\ th'[t].view = <<th'[t].df.content, th'[t].df.content>>]_vars

\* a get_bucket_data that saw a newer modification time, did not store a reload and
\* has answered 200
C7_Witness ==
    \E t \in Threads :
        /\ At(t, "ret")
        /\ th[t].op = "get"
        /\ th[t].status = "200"
        /\ th[t].cache_key \in DOMAIN LAST_MODIFIED
        /\ th[t].current_mtime > LAST_MODIFIED[th[t].cache_key]

----------------------------------------------------------------------------
\* C8: data_version never decreases.
C8_VersionNeverDecreases == [][data_version' >= data_version]_vars

----------------------------------------------------------------------------
\* C9: whenever no thread is between storing a load and the end of its increment,
\* data_version has increased by exactly the number of loads stored into DATA_CACHE.
C9_VersionCountsStoredLoads ==
    (\A t \in Threads : ~InSection(t)) => data_version = 1 + loads_stored

----------------------------------------------------------------------------
\* C10: for a cached key the reload runs only for an observed modification time
\* strictly greater than LAST_MODIFIED[key]; the staleness check that observes an equal
\* or older one starts no load and leaves DATA_CACHE, LAST_MODIFIED and data_version
\* unchanged.
C10_ReloadOnlyIfNewer ==
    [][\A t \in Threads :
          LET k == th[t].cache_key
              f == FileOf(k)
          IN  /\ (Reloading(t) /\ k \in DOMAIN LAST_MODIFIED) =>
                     th[t].current_mtime > LAST_MODIFIED[k]
              /\ (/\ th[t].pc \in {"gb_check", "rf_check"}
                  /\ Steps(t)
                  /\ Has(DATA_CACHE, k) /\ k \in DOMAIN LAST_MODIFIED
                  /\ Exists(f) /\ files[f].mtime <= LAST_MODIFIED[k]) =>
                     /\ UNCHANGED <<DATA_CACHE, LAST_MODIFIED, data_version>>
                     /\ th'[t].pc = IF th[t].op = "get" THEN "gb_read" ELSE "rf_next"]_vars

\* a get_bucket_data that has passed the staleness check without loading, the source
\* being older than the recorded modification time
C10_Witness ==
    \E t \in Threads :
        /\ At(t, "gb_read")
        /\ th[t].df = NoDf
        /\ th[t].cache_key \in DOMAIN LAST_MODIFIED
        /\ Exists(FileOf(th[t].cache_key))
        /\ files[FileOf(th[t].cache_key)].mtime < LAST_MODIFIED[th[t].cache_key]

----------------------------------------------------------------------------
\* C1.  The load of the reload has run in thread t's present call
RanReload(t) ==
    /\ th[t].op \in {"get", "refresh"}
    /\ th[t].current_mtime # 0
    /\ th[t].pc \notin {"gb_reload", "rf_load"}

\* C1 as stated: of the threads that run the staleness check on the same key with the
\* same newer modification time, exactly one runs the load
C1_LoadRunsOnce ==
    \A t, u \in Threads :
        (/\ t # u
         /\ RanReload(t) /\ RanReload(u)
         /\ th[t].cache_key = th[u].cache_key)
            => th[t].current_mtime # th[u].current_mtime

\* no series is cached for another bucket/TS-ID key, so that every increment of
\* data_version so far was made under the lock of k
OnlyKey(k) == \A k2 \in SlashKeys \ {k} : ~Has(DATA_CACHE, k2)

\* C1, amended: a reload runs only while LAST_MODIFIED[key] is older than the
\* modification time it observed, no other thread is inside the locked block of the
\* same key meanwhile, and the reload that stores a series records that modification
\* time (so that no later staleness check with the same time reloads again) and then
\* runs data_version += 1 once, which writes the value it read plus 1: a rise by exactly
\* 1 when no other key is cached.
C1_OneStoredReloadPerMtime ==
    [][\A t \in Threads :
          LET k == th[t].cache_key
          IN  /\ (Reloading(t) /\ k \in DOMAIN LAST_MODIFIED) =>
                     /\ LAST_MODIFIED[k] < th[t].current_mtime
                     /\ \A u \in Threads \ {t} : InSection(u) => th[u].cache_key # k
              /\ (th[t].pc \in {"gb_store_reload", "rf_store"} /\ Steps(t)) =>
                     /\ LAST_MODIFIED'[k] = th[t].current_mtime
                     /\ DATA_CACHE'[k].content = th[t].df.content
                     /\ th'[t].pc \in {"gb_version_read", "rf_version_read"}
              /\ (k \in DOMAIN LAST_MODIFIED) =>
                     (k \in DOMAIN LAST_MODIFIED' /\ LAST_MODIFIED'[k] >= LAST_MODIFIED[k])
              /\ (/\ th[t].pc \in {"gb_version_write", "rf_version_write"}
                  /\ th[t].current_mtime # 0
                  /\ Steps(t)
                  /\ OnlyKey(k)) =>
                     data_version' = data_version + 1
              /\ (th[t].pc \in {"gb_version_write", "rf_version_write"} /\ Steps(t)) =>
                     data_version' = th[t].tmp + 1]_vars

\* two overlapping calls on the same key with the same newer modification time: one
\* has stored the reload, the other has passed the staleness check without loading
C1_Witness ==
    \E t, u \in Threads :
        /\ t # u
        /\ th[t].cache_key = th[u].cache_key
        /\ RanReload(t)
        /\ th[t].cache_key \in DOMAIN LAST_MODIFIED
        /\ LAST_MODIFIED[th[t].cache_key] = th[t].current_mtime
        /\ files[FileOf(th[t].cache_key)] = [mtime |-> th[t].current_mtime, st |-> "ok"]
        /\ th[u].op = "get" /\ At(u, "gb_read") /\ th[u].df = NoDf

----------------------------------------------------------------------------
\* C11: whenever LAST_MODIFIED[key] = m is recorded, DATA_CACHE[key] is the series
\* parsed from the source as it was at modification time m; in particular the cache
\* never holds older content together with a newer modification time.
C11_ContentMatchesMtime ==
    \A k \in DOMAIN LAST_MODIFIED :
        Has(DATA_CACHE, k) => DATA_CACHE[k].content = LAST_MODIFIED[k]

----------------------------------------------------------------------------
\* C19: get_bucket_data_since is a pure read: no step of it changes DATA_CACHE,
\* LAST_MODIFIED, CACHE_KEY_LOCKS or data_version, takes a lock or loads the source,
\* even when the source is newer than the cached entry.
C19_SinceIsPureRead ==
    [][\A t \in Threads :
          ((th[t].op = "since" \/ th'[t].op = "since") /\ Steps(t)) =>
              /\ UNCHANGED <<DATA_CACHE, LAST_MODIFIED, CACHE_KEY_LOCKS, lockOwner,
                             CACHE_LOCK, data_version, loads_stored>>
              /\ th'[t].pc \in {"gs_read", "gs_filter", "ret", "idle"}]_vars

\* a get_bucket_data_since that has answered from the cache while the source was newer
\* than the cached entry
C19_Witness ==
    \E t \in Threads :
        LET k == th[t].cache_key
        IN  /\ th[t].op = "since" /\ At(t, "ret") /\ th[t].status = "200"
            /\ k \in DOMAIN LAST_MODIFIED
            /\ files[FileOf(k)].st = "ok"
            /\ files[FileOf(k)].mtime > LAST_MODIFIED[k]
            /\ th[t].view = <<DATA_CACHE[k].content>>
            /\ DATA_CACHE[k].content < files[FileOf(k)].mtime

\* C30: a get_bucket_data request for a key that already has a cached entry returns
\* the last good snapshot without waiting for a reload of that key that is in progress
\* in another thread.
C30_CachedReadNeverWaits ==
    \A t, u \in Threads :
        ~ /\ t # u
          /\ th[t].op = "get"
          /\ At(t, "acquire")
          /\ Has(DATA_CACHE, th[t].cache_key)
          /\ th[t].cache_key \in DOMAIN LAST_MODIFIED
          /\ th[t].cache_key_lock \in DOMAIN lockOwner
          /\ lockOwner[th[t].cache_key_lock] = u
          /\ Reloading(u)
          /\ th[u].cache_key = th[t].cache_key

----------------------------------------------------------------------------
\* Floating point values, exact: a rational <<n, d>> in lowest terms with d > 0, or
\* NaN, +inf, -inf, which have d = 0.

MaxLen == 3

NaN == <<0, 0>>
PosInf == <<1, 0>>
NegInf == <<-1, 0>>

Sign(n) == IF n > 0 THEN 1 ELSE IF n < 0 THEN -1 ELSE 0
Abs(n) == IF n < 0 THEN -n ELSE n

RECURSIVE Gcd(_, _)
Gcd(a, b) == IF b = 0 THEN a ELSE Gcd(b, a % b)

\* n/d for d # 0
Ratio(n, d) ==
    LET g == Gcd(Abs(n), Abs(d))
    IN  <<(Sign(d) * n) \div g, Abs(d) \div g>>

Float(n) == <<n, 1>>
Zero == Float(0)
One == Float(1)

isna(x) == x = NaN
isinf(x) == x \in {PosInf, NegInf}
isfinite(x) == x[2] # 0

FNeg(x) == <<-x[1], x[2]>>
FAbs(x) == <<Abs(x[1]), x[2]>>

FAdd(x, y) ==
    IF isna(x) \/ isna(y) THEN NaN
    ELSE IF isinf(x) THEN (IF isinf(y) /\ y # x THEN NaN ELSE x)
    ELSE IF isinf(y) THEN y
    ELSE Ratio(x[1] * y[2] + y[1] * x[2], x[2] * y[2])

FSub(x, y) == FAdd(x, FNeg(y))

FMul(x, y) ==
    IF isna(x) \/ isna(y) THEN NaN
    ELSE IF isinf(x) \/ isinf(y)
         THEN (IF x = Zero \/ y = Zero THEN NaN ELSE <<Sign(x[1]) * Sign(y[1]), 0>>)
    ELSE Ratio(x[1] * y[1], x[2] * y[2])

FDiv(x, y) ==
    IF isna(x) \/ isna(y) THEN NaN
    ELSE IF isinf(y) THEN (IF isinf(x) THEN NaN ELSE Zero)
    ELSE IF y = Zero THEN (IF x = Zero THEN NaN ELSE <<Sign(x[1]), 0>>)
    ELSE IF isinf(x) THEN <<Sign(x[1]) * Sign(y[1]), 0>>
    ELSE Ratio(x[1] * y[2], x[2] * y[1])

\* x < y; false when either is NaN.  Finite values are compared by their integer
\* parts first, then by their fractional parts.
FLt(x, y) ==
    /\ ~isna(x) /\ ~isna(y)
    /\ IF isinf(x) \/ isinf(y)
       THEN (IF isinf(x) /\ isinf(y) THEN x[1] < y[1] ELSE x = NegInf \/ y = PosInf)
       ELSE LET qx == x[1] \div x[2]
                qy == y[1] \div y[2]
            IN  IF qx # qy THEN qx < qy
                ELSE (x[1] - qx * x[2]) * y[2] < (y[1] - qy * y[2]) * x[2]

\* x <= y; false when either is NaN
FLe(x, y) == ~isna(x) /\ ~isna(y) /\ ~FLt(y, x)

----------------------------------------------------------------------------
\* pandas operations on a column (a sequence of values)

\* Series.pct_change(): col / col.shift(1) - 1
pct_change(col) ==
    [i \in DOMAIN col |-> IF i = 1 THEN NaN ELSE FSub(FDiv(col[i], col[i - 1]), One)]

\* Series.shift(1) where the column is shifted whole: nothing is lagged
shiftNone(col) == col

\* Series.shift(1)
shift(col) == [i \in DOMAIN col |-> IF i = 1 THEN NaN ELSE col[i - 1]]

\* Series.diff()
diff(col) == [i \in DOMAIN col |-> IF i = 1 THEN NaN ELSE FSub(col[i], col[i - 1])]

fillna(col, v) == [i \in DOMAIN col |-> IF isna(col[i]) THEN v ELSE col[i]]

\* Series.replace([np.inf, -np.inf], v)
replace_inf(col, v) == [i \in DOMAIN col |-> IF isinf(col[i]) THEN v ELSE col[i]]

\* the product of the values of col[1..i] that are not NaN
RECURSIVE ProdTo(_, _)
ProdTo(col, i) ==
    IF i = 0 THEN One
    ELSE IF isna(col[i]) THEN ProdTo(col, i - 1)
    ELSE FMul(ProdTo(col, i - 1), col[i])

\* Series.cumprod(), skipna: NaN where the value is NaN, which the product skips
cumprod(col) == [i \in DOMAIN col |-> IF isna(col[i]) THEN NaN ELSE ProdTo(col, i)]

\* no bound is applied
clipNone(col, lower, upper) == col

\* Series.clip(lower, upper): NaN stays NaN
clip(col, lower, upper) ==
    [i \in DOMAIN col |-> IF FLt(col[i], lower) THEN lower
                          ELSE IF FLt(upper, col[i]) THEN upper
                          ELSE col[i]]

\* the clip bounds of lines 188 and 217
ClipLower == Ratio(-99, 100)
ClipUpper == One

----------------------------------------------------------------------------
\* load_csv_data_from_path on the content of a file.  A file and a DataFrame are
\* tables: a function from column names to columns of one length.  The files here
\* use the names close, timestamp and position; a timestamp is an instant.

\* lines 127-147: the columns that are read from the file
usecols ==
    {"close", "timestamp", "position",
     "cumulative_return", "returns", "position_lag", "strategy_returns"}

Restrict(table, names) == [c \in DOMAIN table \cap names |-> table[c]]

\* the order of the rows by ascending timestamp, equal timestamps in file order
SortPerm(ts) ==
    CHOOSE p \in [DOMAIN ts -> DOMAIN ts] :
        /\ \A i, j \in DOMAIN ts : i # j => p[i] # p[j]
        /\ \A i, j \in DOMAIN ts :
              i < j => \/ ts[p[i]] < ts[p[j]]
                       \/ ts[p[i]] = ts[p[j]] /\ p[i] < p[j]

\* line 169: df.sort_values('timestamp')
sort_values(df) ==
    LET p == SortPerm(df.timestamp)
    IN  [c \in DOMAIN df |-> [i \in DOMAIN df[c] |-> df[c][p[i]]]]

\* lines 174-221: the derived columns
Derived(df, fee_percent) ==
    LET rows == DOMAIN df.close
        returns == fillna(pct_change(df.close), Zero)
        position_lag == fillna(shift(df.position), Zero)
        strategy_returns ==
            fillna(replace_inf([i \in rows |-> FMul(returns[i], position_lag[i])], Zero), Zero)
        growth == cumprod([i \in rows |-> FAdd(One, strategy_returns[i])])
        cumulative_return ==
            fillna(clip([i \in rows |-> FSub(growth[i], One)], ClipLower, ClipUpper), Zero)
        position_change == diff(df.position)
        is_trade == [i \in rows |-> position_change[i] # Zero]
        position_change_abs == [i \in rows |-> FAbs(position_change[i])]
        fee_multiplier ==
            [i \in rows |-> IF is_trade[i]
                            THEN FMul(FDiv(fee_percent, Float(100)), position_change_abs[i])
                            ELSE Zero]
        strategy_returns_after_fees ==
            [i \in rows |-> FSub(strategy_returns[i], fee_multiplier[i])]
        growth_after_fees ==
            cumprod([i \in rows |-> FAdd(One, strategy_returns_after_fees[i])])
        cumulative_return_after_fees ==
            fillna(clip([i \in rows |-> FSub(growth_after_fees[i], One)], ClipLower, ClipUpper),
                   Zero)
    IN  [returns |-> returns,
         position_lag |-> position_lag,
         strategy_returns |-> strategy_returns,
         cumulative_return |-> cumulative_return,
         position_change |-> position_change,
         is_trade |-> is_trade,
         position_change_abs |-> position_change_abs,
         fee_multiplier |-> fee_multiplier,
         strategy_returns_after_fees |-> strategy_returns_after_fees,
         cumulative_return_after_fees |-> cumulative_return_after_fees,
         transaction_cost |-> fee_multiplier]

\* lines 117-230; a file without a timestamp column makes line 169 raise, and the
\* except clause returns an empty DataFrame
LoadCsvData(file, fee_percent) ==
    IF "timestamp" \notin DOMAIN file THEN <<>>
    ELSE LET df == sort_values(Restrict(file, usecols))
         IN  IF /\ "cumulative_return" \notin DOMAIN df
                /\ "position" \in DOMAIN df
                /\ "close" \in DOMAIN df
             THEN Derived(df, fee_percent) @@ df
             ELSE df

----------------------------------------------------------------------------
\* The loader alone: arg is a file and the configured fee, ret the DataFrames loaded.

Prices == {0, 10, 100, 110, 121}
Positions == {-1, 0, 1}
\* transaction_fee_percent of config.json: no fee, and five percent
Fees == {Zero, Float(5)}
\* a cumulative_return column that the source supplies
SuppliedReturns == {Zero, Ratio(3, 2)}

\* timestamps in file order: ascending or descending
Stamps(n) == {[i \in 1..n |-> i], [i \in 1..n |-> n + 1 - i]}

FloatColumns(n, S) == [1..n -> {Float(v) : v \in S}]

RawFiles ==
    UNION {{[timestamp |-> ts, close |-> c, position |-> p] :
               ts \in Stamps(n), c \in FloatColumns(n, Prices), p \in FloatColumns(n, Positions)} :
           n \in 1..MaxLen}

SuppliedFiles ==
    UNION {{[timestamp |-> ts, close |-> c, position |-> p, cumulative_return |-> r] :
               ts \in Stamps(n), c \in FloatColumns(n, Prices),
               p \in FloatColumns(n, Positions), r \in [1..n -> SuppliedReturns]} :
           n \in 1..(MaxLen - 1)}

cachevars == <<shared, files, started, loads_stored, th>>

InitMetrics ==
    /\ CacheInit
    /\ arg \in [file : RawFiles \cup SuppliedFiles, fee_percent : Fees]
    /\ ret = <<>>

\* df = load_csv_data_from_path(csv_path)
LoadCsv ==
    /\ DOMAIN ret = {}
    /\ ret' = [df |-> LoadCsvData(arg.file, arg.fee_percent)]
    /\ UNCHANGED <<cachevars, arg>>

\* the loader applied to a file that holds the columns of the DataFrame it returned
LoadAgain ==
    /\ DOMAIN ret = {"df"}
    /\ ret' = [df |-> ret.df, again |-> LoadCsvData(ret.df, arg.fee_percent)]
    /\ UNCHANGED <<cachevars, arg>>

NextMetrics == LoadCsv \/ LoadAgain

SpecMetrics == InitMetrics /\ [][NextMetrics]_vars

----------------------------------------------------------------------------
\* The claims about the loader, under SpecMetrics

Loaded == "df" \in DOMAIN ret

\* the loader has computed the derived columns itself
Computed == Loaded /\ "cumulative_return" \notin DOMAIN arg.file

InRange(x) == FLe(ClipLower, x) /\ FLe(x, ClipUpper)

\* C12 as stated: every value of cumulative_return and cumulative_return_after_fees of
\* every series the loader returns lies in [-0.99, 1.00]
C12_AlwaysClamped ==
    Loaded =>
        \A c \in {"cumulative_return", "cumulative_return_after_fees"} \cap DOMAIN ret.df :
            \A i \in DOMAIN ret.df[c] : InRange(ret.df[c][i])

\* C12, amended: when the loader computes the derived columns, every value of
\* cumulative_return and of cumulative_return_after_fees lies in [-0.99, 1.00]; a
\* cumulative_return column that the source supplies is returned as it was read, in
\* timestamp order, and no cumulative_return_after_fees is computed for it.
C12_ComputedClamped ==
    Loaded =>
        IF "cumulative_return" \in DOMAIN arg.file
        THEN /\ ret.df.cumulative_return = sort_values(arg.file).cumulative_return
             /\ "cumulative_return_after_fees" \notin DOMAIN ret.df
        ELSE \A c \in {"cumulative_return", "cumulative_return_after_fees"} :
                 /\ c \in DOMAIN ret.df
                 /\ \A i \in DOMAIN ret.df[c] : InRange(ret.df[c][i])

\* both bounds have cut: a gain of 900% at the second sample, a total loss at the third
C12_Witness ==
    /\ Computed
    /\ Len(ret.df.close) = 3
    /\ FLt(One, ret.df.strategy_returns[2])
    /\ ret.df.cumulative_return[2] = ClipUpper
    /\ ret.df.strategy_returns_after_fees[3] = FNeg(One)
    /\ ret.df.cumulative_return_after_fees[3] = ClipLower

\* C13: in every series whose derived columns the loader computed, transaction_cost is
\* >= 0 at every sample and is nonzero only at samples where position differs from the
\* position of the previous sample.
C13_TransactionCost ==
    Computed =>
        \A i \in DOMAIN ret.df.transaction_cost :
            /\ FLe(Zero, ret.df.transaction_cost[i])
            /\ ret.df.transaction_cost[i] # Zero =>
                   (i > 1 /\ ret.df.position[i] # ret.df.position[i - 1])

\* C14: in every series in which position is the same at all samples, transaction_cost
\* is 0 at every sample and strategy_returns_after_fees equals strategy_returns at
\* every sample.
C14_NoTradesNoCost ==
    (/\ Computed
     /\ \A i, j \in DOMAIN ret.df.position : ret.df.position[i] = ret.df.position[j]) =>
        \A i \in DOMAIN ret.df.position :
            /\ ret.df.transaction_cost[i] = Zero
            /\ ret.df.strategy_returns_after_fees[i] = ret.df.strategy_returns[i]

\* C15: the loader applied to a series that carries the derived columns returns it
\* unchanged: loading twice gives the same output as loading once.
C15_LoadTwiceSameAsOnce ==
    "again" \in DOMAIN ret =>
        /\ DOMAIN ret.again = DOMAIN ret.df
        /\ \A c \in DOMAIN ret.df \cap DOMAIN ret.again : ret.again[c] = ret.df[c]

\* the example of C16: prices 100, 110, 121 and positions 0, 1, 1
ExampleFile ==
    [timestamp |-> <<1, 2, 3>>,
     close |-> <<Float(100), Float(110), Float(121)>>,
     position |-> <<Zero, One, One>>]

ExampleHolds ==
    (Loaded /\ arg.file = ExampleFile /\ arg.fee_percent = Zero) =>
        ret.df.cumulative_return = <<Zero, Zero, Ratio(1, 10)>>

\* C16 as stated: strategy_returns[t] = returns[t] * position[t-1] for every t >= 1
\* (here t >= 2, rows being counted from 1), strategy_returns of the first sample is 0,
\* and the example gives cumulative_return 0, 0, 0.10
C16_StrategyReturns ==
    /\ Computed =>
          /\ ret.df.strategy_returns[1] = Zero
          /\ \A t \in DOMAIN ret.df.close \ {1} :
                ret.df.strategy_returns[t] = FMul(ret.df.returns[t], ret.df.position[t - 1])
    /\ ExampleHolds

\* C16, amended: strategy_returns of the first sample is 0 and, for every later sample
\* t, strategy_returns[t] = returns[t] * position[t-1] when that product is finite and
\* 0 when it is infinite or NaN (the previous price was 0); the example gives
\* cumulative_return 0, 0, 0.10.
C16_StrategyReturnsFinite ==
    /\ Computed =>
          /\ ret.df.strategy_returns[1] = Zero
          /\ \A t \in DOMAIN ret.df.close \ {1} :
                LET x == FMul(ret.df.returns[t], ret.df.position[t - 1])
                IN  ret.df.strategy_returns[t] = IF isfinite(x) THEN x ELSE Zero
    /\ ExampleHolds

\* the example has been loaded: the position taken at the second sample earns the
\* 10% of the third
C16_Witness ==
    /\ Computed
    /\ arg.file = ExampleFile
    /\ arg.fee_percent = Zero
    /\ ret.df.position_lag = <<Zero, Zero, One>>
    /\ ret.df.strategy_returns = <<Zero, Zero, Ratio(1, 10)>>

----------------------------------------------------------------------------
\* Reading a cached series: get_resampled_data, the display part of get_bucket_data
\* and the filter of get_bucket_data_since.  An instant is a number of ticks, two to
\* the second; a timestamp text is [s, frac]: whole seconds and the ticks behind them.

\* instants are counted in half seconds: a sample may lie between two whole seconds
Second == 2
Minute == 60 * Second
Hour == 60 * Minute

\* the rows of a table as a sequence of records, and back
Rows(df) == [i \in DOMAIN df.timestamp |-> [c \in DOMAIN df |-> df[c][i]]]
Table(rows, names) == [c \in names |-> [i \in DOMAIN rows |-> rows[i][c]]]

\* the width of a resample period
Width(period) ==
    CASE period = "1h" -> Hour
      [] period = "30min" -> 30 * Minute
      [] period = "15min" -> 15 * Minute
      [] period = "5min" -> 5 * Minute

\* the left edge of the bucket of an instant
BinOf(ts, period) == (ts \div Width(period)) * Width(period)

\* the last value of the column in the bucket that is not NaN, NaN if there is none
LastIn(df, c, bin, period) ==
    LET in == {i \in DOMAIN df.timestamp :
                   BinOf(df.timestamp[i], period) = bin /\ ~isna(df[c][i])}
    IN  IF in = {} THEN NaN ELSE df[c][CHOOSE i \in in : \A j \in in : j <= i]

\* the left edges of the buckets from the bucket first up to the bucket last, without it
BinsOpen(first, last, period) ==
    [k \in 1..((last - first) \div Width(period)) |-> first + (k - 1) * Width(period)]

\* the left edges of the buckets from the bucket first to the bucket last, in time order
Bins(first, last, period) ==
    [k \in 1..((last - first) \div Width(period) + 1) |-> first + (k - 1) * Width(period)]

\* every row is kept and labelled with the left edge of its bucket
ResampleNoGrouping(df, period) ==
    [c \in DOMAIN df |->
        IF c = "timestamp"
        THEN [i \in DOMAIN df.timestamp |-> BinOf(df.timestamp[i], period)]
        ELSE df[c]]

\* line 366: df_copy.resample(period).agg(agg_dict).dropna(), then reset_index: one row
\* for each bucket from the first to the last, labelled with its left edge, without the
\* rows that hold a NaN
Resample(df, period) ==
    LET stamps == {df.timestamp[i] : i \in DOMAIN df.timestamp}
        first == BinOf(CHOOSE x \in stamps : \A y \in stamps : x <= y, period)
        last == BinOf(CHOOSE x \in stamps : \A y \in stamps : x >= y, period)
        bins == Bins(first, last, period)
        all == [i \in DOMAIN bins |->
                   [c \in DOMAIN df |-> IF c = "timestamp" THEN bins[i]
                                        ELSE LastIn(df, c, bins[i], period)]]
        kept == SelectSeq(all, LAMBDA r : \A c \in DOMAIN df \ {"timestamp"} : ~isna(r[c]))
    IN  Table(kept, DOMAIN df)

\* no period is given
NoPeriod == "None"

\* the ladder with each threshold counted into the coarser period
AutoPeriodFrom(total_rows) ==
    IF total_rows >= 50000 THEN "1h"
    ELSE IF total_rows >= 20000 THEN "30min"
    ELSE IF total_rows >= 10000 THEN "15min"
    ELSE IF total_rows >= 5000 THEN "5min"
    ELSE NoPeriod

\* lines 328-338: the period chosen from the number of rows
AutoPeriod(total_rows) ==
    IF total_rows > 50000 THEN "1h"
    ELSE IF total_rows > 20000 THEN "30min"
    ELSE IF total_rows > 10000 THEN "15min"
    ELSE IF total_rows > 5000 THEN "5min"
    ELSE NoPeriod

\* lines 317-372
get_resampled_data(df, resample_period) ==
    LET total_rows == Len(df.timestamp)
        period == IF resample_period # NoPeriod THEN resample_period
                  ELSE AutoPeriod(total_rows)
    IN  IF total_rows = 0 \/ period = NoPeriod THEN df ELSE Resample(df, period)

\* pd.to_datetime of a timestamp text
to_datetime(text) == text.s * Second + text.frac

\* strftime('%Y-%m-%d %H:%M:%S'): the text of an instant, to the second
strftime(ts) == [s |-> ts \div Second, frac |-> 0]

\* lines 997-1000
Display(df, resolution) ==
    IF resolution = "minutely" THEN df ELSE get_resampled_data(df, "1h")

\* lines 1008-1010: the rows of the response
ResponseRows(df) ==
    [i \in DOMAIN df.timestamp |->
        [timestamp |-> strftime(df.timestamp[i]), price |-> df.close[i]]]

\* the rows at or behind the watermark
NewerOrSame(df, last_dt) ==
    Table(SelectSeq(Rows(df), LAMBDA r : r.timestamp >= last_dt), DOMAIN df)

\* line 1080: df[df['timestamp'] > last_dt]
Newer(df, last_dt) ==
    Table(SelectSeq(Rows(df), LAMBDA r : r.timestamp > last_dt), DOMAIN df)

\* a text that pd.to_datetime cannot parse
Unparsable == [s |-> -1, frac |-> 0]

\* lines 1077-1098
SinceResponse(df, last_timestamp) ==
    IF last_timestamp = Unparsable
    THEN [status |-> "500"]
    ELSE LET new_data == Newer(df, to_datetime(last_timestamp))
         IN  IF Len(new_data.timestamp) = 0
             THEN [status |-> "200", new_data |-> FALSE]
             ELSE [status |-> "200", new_data |-> TRUE, rows |-> ResponseRows(new_data)]

----------------------------------------------------------------------------
\* The readers alone: arg is a cached series (ordered by timestamp, as the loader
\* leaves it) and the watermark text of the request, ret what each call returned.

Instants == {0, 1, Second, Hour, 3 * Hour}
Closes == {Float(1), Float(2), NaN}
Periods == {"1h", "30min", NoPeriod}
Resolutions == {"minutely", "hourly"}

SeriesOf(n) ==
    {[timestamp |-> ts, close |-> c] :
        ts \in {x \in [1..n -> Instants] : \A i \in 1..(n - 1) : x[i] <= x[i + 1]},
        c \in [1..n -> Closes]}

CachedSeries == UNION {SeriesOf(n) : n \in 0..MaxLen}

Watermarks ==
    {[s |-> i \div Second, frac |-> i % Second] : i \in Instants} \cup {Unparsable}

InitSeries ==
    /\ CacheInit
    /\ arg \in [df : CachedSeries, last_timestamp : Watermarks]
    /\ ret = <<>>

\* get_bucket_data, lines 988-1021, on the cached series
ShowSeries(resolution) ==
    /\ "get" \notin DOMAIN ret
    /\ Len(arg.df.timestamp) > 0
    /\ LET df_display == Display(arg.df, resolution)
       IN  ret' = [get |-> [resolution |-> resolution,
                            df_display |-> df_display,
                            rows |-> ResponseRows(df_display)]] @@ ret
    /\ UNCHANGED <<cachevars, arg>>

\* get_bucket_data_since, lines 1075-1098, on the cached series
FilterSince ==
    /\ "since" \notin DOMAIN ret
    /\ Len(arg.df.timestamp) > 0
    /\ ret' = [since |-> SinceResponse(arg.df, arg.last_timestamp)] @@ ret
    /\ UNCHANGED <<cachevars, arg>>

\* get_resampled_data
ResampleSeries(period) ==
    /\ "resampled" \notin DOMAIN ret
    /\ ret' = [resampled |-> [period |-> period,
                              df |-> get_resampled_data(arg.df, period)]] @@ ret
    /\ UNCHANGED <<cachevars, arg>>

NextSeries ==
    \/ \E resolution \in Resolutions : ShowSeries(resolution)
    \/ FilterSince
    \/ \E period \in Periods : ResampleSeries(period)

SpecSeries == InitSeries /\ [][NextSeries]_vars

----------------------------------------------------------------------------
\* The claims about the readers, under SpecSeries

Parsable == arg.last_timestamp # Unparsable
last_dt == to_datetime(arg.last_timestamp)

\* the rows get_bucket_data_since has returned
SinceRows == IF ret.since.new_data THEN ret.since.rows ELSE <<>>

\* C17: get_bucket_data_since(key, t0) returns exactly the rows of the series that
\* get_bucket_data returns for the key whose timestamp is > t0, in the same order, for
\* every resolution of the full fetch.
C17_SinceIsSuffixOfGet ==
    ("get" \in DOMAIN ret /\ "since" \in DOMAIN ret /\ Parsable) =>
        LET shown == SelectSeq(Rows(ret.get.df_display), LAMBDA r : r.timestamp > last_dt)
        IN  SinceRows = [i \in DOMAIN shown |->
                            [timestamp |-> strftime(shown[i].timestamp),
                             price |-> shown[i].close]]

\* C18: get_bucket_data_since answers new_data = false exactly when the cached series
\* has no sample with a timestamp strictly greater than the watermark; the rows it
\* returns are the samples behind the watermark, so a sample at the watermark is never
\* returned, and a watermark equal to the last timestamp gives new_data = false, not
\* an error.
C18_StrictlyNewer ==
    ("since" \in DOMAIN ret /\ Parsable) =>
        LET ts == arg.df.timestamp
            n == Len(ts)
            newer == {i \in 1..n : ts[i] > last_dt}
            k == Cardinality(newer)
        IN  /\ ret.since.status = "200"
            /\ ret.since.new_data = (newer # {})
            /\ Len(SinceRows) = k
            /\ \A j \in 1..k :
                  /\ ts[n - k + j] > last_dt
                  /\ SinceRows[j] = [timestamp |-> strftime(ts[n - k + j]),
                                     price |-> arg.df.close[n - k + j]]
            /\ last_dt = ts[n] => ret.since = [status |-> "200", new_data |-> FALSE]

\* the watermark is the timestamp of the last sample, an earlier sample lies before it,
\* and the answer is new_data = false
C18_Witness ==
    /\ "since" \in DOMAIN ret
    /\ Parsable
    /\ Len(arg.df.timestamp) > 1
    /\ arg.df.timestamp[Len(arg.df.timestamp)] = last_dt
    /\ arg.df.timestamp[1] < last_dt
    /\ ret.since = [status |-> "200", new_data |-> FALSE]

C23_LastSampleOfEachBucket ==
    ("resampled" \in DOMAIN ret /\ ret.resampled.period # NoPeriod) =>
        LET period == ret.resampled.period
            ts == arg.df.timestamp
            out == ret.resampled.df
            buckets == {BinOf(ts[i], period) : i \in DOMAIN ts}
            LastOf(bin) == CHOOSE i \in DOMAIN ts :
                              /\ BinOf(ts[i], period) = bin
                              /\ \A j \in DOMAIN ts : BinOf(ts[j], period) = bin => j <= i
        IN  /\ {out.timestamp[k] : k \in DOMAIN out.timestamp} = buckets
            /\ Len(out.timestamp) = Cardinality(buckets)
            /\ \A k \in DOMAIN out.timestamp :
                  out.timestamp[k] \in buckets =>
                      out.close[k] = arg.df.close[LastOf(out.timestamp[k])]

----------------------------------------------------------------------------
\* Long series. A series of total_rows samples spaced one minute apart is held as its
\* first instant and its number of rows; row i has the timestamp StampAt(series, i) and
\* the close i. get_resampled_data is computed on it bucket by bucket.

RowCounts ==
    {1, 2, 3, 60, 61, 5000, 5001, 10000, 10001, 20000, 20001, 50000, 50001, 60000}
FirstInstants ==
    {0, 1, Minute, 30 * Minute, 59 * Minute, Hour - 1, 5 * Hour + 7 * Minute}

StampAt(series, i) == series.first + (i - 1) * Minute

\* the series written out row by row
Explicit(series) ==
    [timestamp |-> [i \in 1..series.total_rows |-> StampAt(series, i)],
     close |-> [i \in 1..series.total_rows |-> Float(i)]]

\* the last row of the series that lies before the end of the bucket
LastRowBefore(series, bin, period) ==
    LET i == (bin + Width(period) - 1 - series.first) \div Minute + 1
    IN  IF i > series.total_rows THEN series.total_rows ELSE i

\* line 366 on the evenly spaced series: one row for each bucket from the first to the
\* last, with the last row of the bucket, without the buckets that hold no row
ResampleEven(series, period) ==
    LET first == BinOf(StampAt(series, 1), period)
        last == BinOf(StampAt(series, series.total_rows), period)
        bins == Bins(first, last, period)
        all == [k \in DOMAIN bins |->
                   [timestamp |-> bins[k], row |-> LastRowBefore(series, bins[k], period)]]
        kept == SelectSeq(all, LAMBDA r : StampAt(series, r.row) >= r.timestamp)
    IN  [timestamp |-> [k \in DOMAIN kept |-> kept[k].timestamp],
         row |-> [k \in DOMAIN kept |-> kept[k].row]]

\* lines 317-372 on the evenly spaced series
get_resampled_even(series, resample_period) ==
    LET period == IF resample_period # NoPeriod THEN resample_period
                  ELSE AutoPeriod(series.total_rows)
    IN  IF series.total_rows = 0 \/ period = NoPeriod
        THEN [period |-> NoPeriod, df |-> series]
        ELSE [period |-> period, df |-> ResampleEven(series, period)]

InitEven ==
    /\ CacheInit
    /\ arg \in [first : FirstInstants, total_rows : RowCounts]
    /\ ret = <<>>

\* get_resampled_data(df): the period is chosen from the number of rows
AutoResample ==
    /\ "auto" \notin DOMAIN ret
    /\ ret' = [auto |-> get_resampled_even(arg, NoPeriod)] @@ ret
    /\ UNCHANGED <<cachevars, arg>>

\* get_resampled_data(df, '1h'), as get_bucket_data calls it
HourlyResample ==
    /\ "hourly" \notin DOMAIN ret
    /\ ret' = [hourly |-> get_resampled_even(arg, "1h")] @@ ret
    /\ UNCHANGED <<cachevars, arg>>

NextEven == AutoResample \/ HourlyResample

SpecEven == InitEven /\ [][NextEven]_vars

\* on a series short enough to write out, the bucket-by-bucket computation gives what
\* Resample gives
EvenIsResample ==
    ("hourly" \in DOMAIN ret /\ arg.total_rows <= 61) =>
        LET out == Resample(Explicit(arg), "1h")
        IN  /\ out.timestamp = ret.hourly.df.timestamp
            /\ out.close = [k \in DOMAIN out.close |-> Float(ret.hourly.df.row[k])]

\* C21: with no period given, get_resampled_data picks the bucket width from the row
\* count n alone: n > 50000 gives 1 hour, 20000 < n <= 50000 gives 30 minutes,
\* 10000 < n <= 20000 gives 15 minutes, 5000 < n <= 10000 gives 5 minutes, and
\* n <= 5000 returns the series unchanged.
C21_SizeLadder ==
    "auto" \in DOMAIN ret =>
        LET n == arg.total_rows
            out == ret.auto
        IN  /\ n > 50000 => out.period = "1h"
            /\ (20000 < n /\ n <= 50000) => out.period = "30min"
            /\ (10000 < n /\ n <= 20000) => out.period = "15min"
            /\ (5000 < n /\ n <= 10000) => out.period = "5min"
            /\ n <= 5000 => (out.period = NoPeriod /\ out.df = arg)
            /\ out.period # NoPeriod =>
                  \A k \in DOMAIN out.df.timestamp :
                      /\ out.df.timestamp[k] % Width(out.period) = 0
                      /\ k > 1 => out.df.timestamp[k] - out.df.timestamp[k - 1]
                                      = Width(out.period)

\* a series of exactly 20000 rows is bucketed by 15 minutes
C21_Witness ==
    /\ "auto" \in DOMAIN ret
    /\ arg.total_rows = 20000
    /\ ret.auto.period = "15min"
    /\ Len(ret.auto.df.timestamp) > 1

----------------------------------------------------------------------------
\* Frames as objects. heap is the sequence of the frames that exist, a frame is known
\* by its place in it; frame 1 is the cached series handed to get_resampled_data.

\* no copy is made: the name df_copy is bound to the frame itself
copyNone(heap, id) == [heap |-> heap, id |-> id]

\* line 341: df.copy()
copy(heap, id) == [heap |-> Append(heap, heap[id]), id |-> Len(heap) + 1]

\* line 343: set_index(timestamp_col, inplace=True): the column becomes the index
set_index(heap, id) ==
    [heap EXCEPT ![id] = [c \in (DOMAIN @ \ {"timestamp"}) \cup {"index"} |->
                             IF c = "index" THEN @.timestamp ELSE @[c]]]

\* lines 317-372 with the frames as objects: the heap afterwards and the frame returned
get_resampled_object(heap, df, resample_period) ==
    LET total_rows == Len(heap[df].timestamp)
        period == IF resample_period # NoPeriod THEN resample_period
                  ELSE AutoPeriod(total_rows)
    IN  IF total_rows = 0 \/ period = NoPeriod
        THEN [heap |-> heap, out |-> df]
        ELSE LET copied == copy(heap, df)
                 df_copy == copied.id
                 indexed == set_index(copied.heap, df_copy)
                 frame == [c \in (DOMAIN indexed[df_copy] \ {"index"}) \cup {"timestamp"} |->
                              IF c = "timestamp" THEN indexed[df_copy].index
                              ELSE indexed[df_copy][c]]
                 resampled == Resample(frame, period)
             IN  [heap |-> Append(indexed, resampled), out |-> Len(indexed) + 1]

InitObjects ==
    /\ CacheInit
    /\ arg \in [df : CachedSeries]
    /\ ret = <<>>

\* get_resampled_data is called on the cached frame
ResampleObject(period) ==
    /\ DOMAIN ret = {}
    /\ LET done == get_resampled_object(<<arg.df>>, 1, period)
       IN  ret' = [period |-> period, heap |-> done.heap, out |-> done.out,
                   changed |-> FALSE]
    /\ UNCHANGED <<cachevars, arg>>

\* the caller changes the frame it was given back in place (it adds a column)
ChangeReturned ==
    /\ DOMAIN ret # {}
    /\ ~ret.changed
    /\ ret' = [ret EXCEPT
                  !.changed = TRUE,
                  !.heap[ret.out] = [changed |-> [i \in DOMAIN @.timestamp |-> Zero]] @@ @]
    /\ UNCHANGED <<cachevars, arg>>

NextObjects ==
    \/ \E period \in Periods : ResampleObject(period)
    \/ ChangeReturned

SpecObjects == InitObjects /\ [][NextObjects]_vars

\* C24: get_resampled_data never changes the series it is given, and what it returns is
\* a new series distinct from the cached one, so a later change to the returned series
\* cannot reach the cache.
C24_NeverSharesTheCachedSeries ==
    DOMAIN ret # {} =>
        /\ ret.heap[1] = arg.df
        /\ ret.out # 1

\* C24, amended: the call itself never changes the series it is given; when it
\* resamples (the series is not empty and a period is given or chosen) it returns a new
\* series and a later change to it does not reach the one given; when the series is
\* empty, or no period is given and it has at most 5000 rows, it returns the very
\* series it was given.
C24_NewSeriesWhenResampled ==
    DOMAIN ret # {} =>
        LET resamples == Len(arg.df.timestamp) > 0 /\ ret.period # NoPeriod
        IN  /\ ~ret.changed => ret.heap[1] = arg.df
            /\ resamples => (ret.out # 1 /\ ret.heap[1] = arg.df)
            /\ ~resamples => ret.out = 1

\* an hourly resample of a series with samples was changed afterwards, and the series
\* given is as it was
C24_Witness ==
    /\ DOMAIN ret # {}
    /\ ret.changed
    /\ ret.period = "1h"
    /\ Len(arg.df.timestamp) > 1
    /\ Len(ret.heap[ret.out].timestamp) = 1
    /\ "changed" \in DOMAIN ret.heap[ret.out]
    /\ ret.heap[1] = arg.df

----------------------------------------------------------------------------
\* Directory listings and file reads against a directory that the producer is writing.
\* arg names the place that does the listing or the read and says which of the
\* successive attempts fail; ret counts the attempts made and holds the outcome.

Tries == 5
max_retries == 3

Sites == {"get_bucket_symbols", "get_bucket_data", "load_csv_data_from_path"}

InitRetry ==
    /\ CacheInit
    /\ arg \in [site : Sites, fails : [1..Tries -> BOOLEAN]]
    /\ ret = [attempts |-> 0, outcome |-> "pending"]

\* lines 764-773: os.listdir(bucket_path) in the retry loop of get_bucket_symbols, one
\* turn of the loop
ListBucketSymbols ==
    LET attempt == ret.attempts
    IN  /\ arg.site = "get_bucket_symbols"
        /\ ret.outcome = "pending"
        /\ attempt < max_retries
        /\ ret' = [attempts |-> attempt + 1,
                   outcome |-> IF ~arg.fails[attempt + 1] THEN "ok"
                               ELSE IF attempt = max_retries - 1 THEN "empty"
                               ELSE "pending"]
        /\ UNCHANGED <<cachevars, arg>>

\* line 904: os.listdir(bucket_path) in get_bucket_data, outside any try: what it raises
\* leaves the handler
ListBucketData ==
    /\ arg.site = "get_bucket_data"
    /\ ret.outcome = "pending"
    /\ ret' = [attempts |-> 1, outcome |-> IF arg.fails[1] THEN "error" ELSE "ok"]
    /\ UNCHANGED <<cachevars, arg>>

\* lines 117-230: the reads of load_csv_data_from_path, inside one try whose except
\* returns pd.DataFrame()
ReadSource ==
    /\ arg.site = "load_csv_data_from_path"
    /\ ret.outcome = "pending"
    /\ ret' = [attempts |-> 1, outcome |-> IF arg.fails[1] THEN "empty" ELSE "ok"]
    /\ UNCHANGED <<cachevars, arg>>

NextRetry == ListBucketSymbols \/ ListBucketData \/ ReadSource

SpecRetry == InitRetry /\ [][NextRetry]_vars

\* C29: every directory listing and source-file read is retried at most 3 attempts in
\* all when it fails transiently, stops at the first success, and after the last failed
\* attempt gives an empty result to the caller instead of an error.
C29_EveryReadRetried ==
    ret.outcome # "pending" =>
        LET good == {i \in 1..max_retries : ~arg.fails[i]}
        IN  /\ ret.attempts <= max_retries
            /\ ret.outcome # "error"
            /\ good # {} =>
                  /\ ret.outcome = "ok"
                  /\ ret.attempts \in good
                  /\ \A i \in good : ret.attempts <= i
            /\ good = {} => (ret.outcome = "empty" /\ ret.attempts = max_retries)

----------------------------------------------------------------------------
\* The price changes of the summary. Of a series only the rows that process_symbol reads
\* are held: close is a function from their places (counted from 1) to prices.

DayRows == 1440
WeekRows == 10080

SummaryRowCounts == {1, 2, DayRows, DayRows + 1, WeekRows, WeekRows + 1}

\* the places of the rows read: the first, the last, iloc[-1440] and iloc[-10080]
RowsRead(n) ==
    {1, n} \cup (IF n >= DayRows THEN {n - DayRows + 1} ELSE {})
           \cup (IF n >= WeekRows THEN {n - WeekRows + 1} ELSE {})

\* df['close'].iloc[k] of a series of n rows
iloc(close, n, k) == IF k >= 0 THEN close[k + 1] ELSE close[n + k + 1]

\* round(x, 2), half to even
round2(x) ==
    IF ~isfinite(x) THEN x
    ELSE LET q == (100 * x[1]) \div x[2]
             r == (100 * x[1]) % x[2]
             up == 2 * r > x[2] \/ (2 * r = x[2] /\ q % 2 = 1)
         IN  Ratio(IF up THEN q + 1 ELSE q, 100)

\* ((last_price - price_ago) / price_ago) * 100
Change(last_price, price_ago) ==
    FMul(FDiv(FSub(last_price, price_ago), price_ago), Float(100))

\* lines 1145-1161 and 1195-1199: the prices and changes of the record
process_symbol_changes(n, close) ==
    LET last_price == iloc(close, n, -1)
        change_24h == IF n > DayRows
                      THEN Change(last_price, iloc(close, n, -DayRows))
                      ELSE Zero
        change_7d == IF n > WeekRows
                     THEN Change(last_price, iloc(close, n, -WeekRows))
                     ELSE Change(last_price, iloc(close, n, 0))
    IN  [last_price |-> round2(last_price),
         change_24h |-> round2(change_24h),
         change_7d |-> round2(change_7d)]

InitChanges ==
    /\ CacheInit
    /\ \E n \in SummaryRowCounts :
          arg \in [total_rows : {n}, close : [RowsRead(n) -> {Float(p) : p \in Prices}]]
    /\ ret = <<>>

\* process_symbol computes the record of the series
ProcessSymbolChanges ==
    /\ DOMAIN ret = {}
    /\ ret' = process_symbol_changes(arg.total_rows, arg.close)
    /\ UNCHANGED <<cachevars, arg>>

NextChanges == ProcessSymbolChanges

SpecChanges == InitChanges /\ [][NextChanges]_vars

\* C27: in the summary, both the 24-hour and the 7-day change fall back to the earliest
\* sample when the series is too short for the window (at most 1440 rows for 24h, at
\* most 10080 rows for 7d): the change is then (last - first) / first * 100.
C27_FallBackToEarliest ==
    DOMAIN ret # {} =>
        LET n == arg.total_rows
            fallback == round2(Change(arg.close[n], arg.close[1]))
        IN  /\ n <= DayRows => ret.change_24h = fallback
            /\ n <= WeekRows => ret.change_7d = fallback

----------------------------------------------------------------------------
\* get_symbols_summary: one request, its pool of bucket tasks and the pool of symbol
\* tasks that each bucket task makes. arg holds what discover_symbols_in_bucket found
\* in each bucket and how the computation of each symbol ends; ret holds the request:
\* the state of every task, the lists being built and the status of the response.

MAX_WORKERS == 2

Buckets == {1, 2}
\* sym_info['symbol']: the symbols are numbered in the alphabetical order of their names
Symbols == 1..5
\* the symbols of each bucket, in the order of symbols_info
SymbolsInfo == <<(<<3, 1, 5>>), (<<4, 2>>)>>
BucketOf(s) == CHOOSE b \in Buckets : \E i \in DOMAIN SymbolsInfo[b] : SymbolsInfo[b][i] = s
Outcomes == {"record", "raises", "empty"}

\* no except clause: what process_symbol raises comes out of it
exceptNone(outcome) == outcome

\* lines 1129 and 1210-1212: try ... except Exception: return None
except(outcome) == IF outcome = "raises" THEN "empty" ELSE outcome

\* lines 1144 and 1190-1209: a record for a series with samples, else None
process_symbol(s) ==
    LET outcome == except(arg.outcome[s])
    IN  IF outcome = "record" THEN [kind |-> "record", symbol |-> s]
        ELSE IF outcome = "empty" THEN [kind |-> "None"]
        ELSE [kind |-> "raised"]

InitSummary ==
    /\ CacheInit
    /\ arg \in [outcome : [Symbols -> Outcomes]]
    /\ ret = [status |-> "running",
              bucket |-> [b \in Buckets |-> "queued"],
              task |-> [s \in Symbols |-> "none"],
              result |-> [s \in Symbols |-> [kind |-> "None"]],
              bucket_summary |-> [b \in Buckets |-> <<>>],
              summary_data |-> <<>>]

Running == ret.status = "running"
RunningBuckets == {b \in Buckets : ret.bucket[b] = "running"}
RunningSymbols(b) == {s \in Symbols : BucketOf(s) = b /\ ret.task[s] = "running"}

\* lines 1226-1227: a worker of pool takes a bucket task; lines 1117-1123 and 1216: the
\* task submits every symbol of the bucket to a pool of its own
StartBucket(b) ==
    /\ Running
    /\ ret.bucket[b] = "queued"
    /\ Cardinality(RunningBuckets) < MAX_WORKERS
    /\ ret' = [ret EXCEPT !.bucket[b] = "running",
                          !.task = [s \in Symbols |->
                                       IF BucketOf(s) = b THEN "queued" ELSE @[s]]]
    /\ UNCHANGED <<cachevars, arg>>

\* a worker of symbol_pool takes a symbol task
StartSymbol(s) ==
    /\ Running
    /\ ret.task[s] = "queued"
    /\ Cardinality(RunningSymbols(BucketOf(s))) < MAX_WORKERS
    /\ ret' = [ret EXCEPT !.task[s] = "running"]
    /\ UNCHANGED <<cachevars, arg>>

\* lines 1128-1212: process_symbol runs to its end
FinishSymbol(s) ==
    /\ Running
    /\ ret.task[s] = "running"
    /\ ret' = [ret EXCEPT !.task[s] = "done", !.result[s] = process_symbol(s)]
    /\ UNCHANGED <<cachevars, arg>>

\* lines 1218-1221: as_completed gives the next finished future; future.result() raises
\* what the task raised, which ends the bucket task
CollectSymbol(s) ==
    LET b == BucketOf(s)
        result == ret.result[s]
    IN  /\ Running
        /\ ret.bucket[b] = "running"
        /\ ret.task[s] = "done"
        /\ ret' = IF result.kind = "raised"
                  THEN [ret EXCEPT !.task[s] = "collected", !.bucket[b] = "raised"]
                  ELSE [ret EXCEPT !.task[s] = "collected",
                                   !.bucket_summary[b] =
                                       IF result.kind = "record"
                                       THEN Append(@, result.symbol) ELSE @]
        /\ UNCHANGED <<cachevars, arg>>

\* line 1223: return bucket_summary, when the with block has seen every future
ReturnBucket(b) ==
    /\ Running
    /\ ret.bucket[b] = "running"
    /\ \A s \in Symbols : BucketOf(s) = b => ret.task[s] = "collected"
    /\ ret' = [ret EXCEPT !.bucket[b] = "returned"]
    /\ UNCHANGED <<cachevars, arg>>

\* lines 1229-1231: as_completed gives the next finished bucket task; its list is added
\* to summary_data, or what it raised ends the request
CollectBucket(b) ==
    /\ Running
    /\ ret.bucket[b] \in {"returned", "raised"}
    /\ ret' = IF ret.bucket[b] = "raised"
              THEN [ret EXCEPT !.bucket[b] = "collected", !.status = "500"]
              ELSE [ret EXCEPT !.bucket[b] = "collected",
                               !.summary_data = @ \o ret.bucket_summary[b]]
    /\ UNCHANGED <<cachevars, arg>>

\* lines 1233-1292: the statistics and the response, 'symbols': summary_data
Respond ==
    /\ Running
    /\ \A b \in Buckets : ret.bucket[b] = "collected"
    /\ ret' = [ret EXCEPT !.status = "200"]
    /\ UNCHANGED <<cachevars, arg>>

NextSummary ==
    \/ \E b \in Buckets : StartBucket(b)
    \/ \E s \in Symbols : StartSymbol(s)
    \/ \E s \in Symbols : FinishSymbol(s)
    \/ \E s \in Symbols : CollectSymbol(s)
    \/ \E b \in Buckets : ReturnBucket(b)
    \/ \E b \in Buckets : CollectBucket(b)
    \/ Respond

SpecSummary == InitSummary /\ [][NextSummary]_vars

\* C25: a failure while computing one symbol drops only that symbol: the request still
\* completes (it has a step to take until it has answered, and it answers 200) and
\* returns the record of every other symbol, of the same bucket and of the others,
\* once each.
C25_FailureDropsOnlyThatSymbol ==
    /\ ret.status # "500"
    /\ Running => ENABLED NextSummary
    /\ ret.status = "200" =>
          /\ {ret.summary_data[i] : i \in DOMAIN ret.summary_data}
                = {s \in Symbols : arg.outcome[s] = "record"}
          /\ Len(ret.summary_data)
                = Cardinality({s \in Symbols : arg.outcome[s] = "record"})

\* the computation of one symbol of the first bucket raised, and the answer holds the
\* records of the two other symbols of that bucket and of the symbols of the other
C25_Witness ==
    /\ ret.status = "200"
    /\ arg.outcome[1] = "raises"
    /\ \A s \in Symbols \ {1} : arg.outcome[s] = "record"
    /\ Len(ret.summary_data) = 4

\* C26: the per-symbol list returned by get_symbols_summary is ordered by symbol name,
\* whatever the order in which the parallel tasks complete.
C26_OrderedBySymbolName ==
    ret.status = "200" =>
        \A i, j \in DOMAIN ret.summary_data :
            i < j => ret.summary_data[i] <= ret.summary_data[j]

\* C28: during one request, the number of per-symbol computations running at the same
\* time never exceeds MAX_WORKERS.
C28_AtMostMaxWorkers ==
    Cardinality({s \in Symbols : ret.task[s] = "running"}) <= MAX_WORKERS


----------------------------------------------------------------------------
\* Further claims about the cache operations, under Spec

\* C31: get_bucket_data and get_bucket_data_since answer 404 when no source file
\* matches the requested symbol, and then create no cache entry, no LAST_MODIFIED
\* entry and leave data_version unchanged.
C31_NotFoundWithoutSource ==
    [][\A t \in Threads, f \in Files :
          ((GetBucketDataStart(t, f) \/ GetBucketDataSinceStart(t, f)) /\ ~Exists(f)) =>
              /\ th'[t].status = "404"
              /\ UNCHANGED <<DATA_CACHE, LAST_MODIFIED, data_version>>]_vars


\* C37: for a key already in DATA_CACHE, get_symbols_summary never reloads: no step
\* of its task rebinds DATA_CACHE[key] or changes LAST_MODIFIED or data_version, it
\* never enters its load, and it takes the cached series as its df, even when the
\* source is newer than LAST_MODIFIED[key].
C37_SummaryNeverReloads ==
    [][\A t \in Threads :
          LET k == th[t].cache_key
          IN  (th[t].op = "summary" /\ Steps(t) /\ Has(DATA_CACHE, k)) =>
                  /\ Has(DATA_CACHE', k)
                  /\ Ref(DATA_CACHE'[k]) = Ref(DATA_CACHE[k])
                  /\ UNCHANGED <<LAST_MODIFIED, data_version, loads_stored>>
                  /\ th'[t].pc \notin {"ps_load", "ps_store"}
                  /\ At(t, "ps_check") => th'[t].df = Ref(DATA_CACHE[k])]_vars

\* a summary task has made its record from the series a get_bucket_data cached, the
\* only load of the run, while the source was newer than LAST_MODIFIED[key]
C37_Witness ==
    \E t, u \in Threads :
        LET k == th[t].cache_key
        IN  /\ t # u
            /\ th[u].op = "get" /\ At(u, "ret") /\ th[u].status = "200" /\ th[u].cache_key = k
            /\ th[t].op = "summary" /\ At(t, "ret") /\ th[t].status = "record"
            /\ loads_stored = 1
            /\ Has(DATA_CACHE, k) /\ k \in DOMAIN LAST_MODIFIED
            /\ Exists(FileOf(k))
            /\ files[FileOf(k)].mtime > LAST_MODIFIED[k]
            /\ th[t].view = <<DATA_CACHE[k].content, DATA_CACHE[k].content>>


----------------------------------------------------------------------------
\* Claims about all four operations, under SpecReturns

\* C39: get_bucket_data_since never performs a first load: for a key that is not in
\* DATA_CACHE it answers 404 and changes nothing, even when the source file exists;
\* a key of the form 'bucket/TS-id' enters DATA_CACHE only by a step of a
\* get_bucket_data or get_symbols_summary task on that key, and an incremental read
\* that answers with data found the key cached when it started.
C39_SinceNeverLoadsFirst ==
    [][/\ \A t \in Threads, f \in Files :
            (GetBucketDataSinceStart(t, f) /\ ~Has(DATA_CACHE, SlashKey(f))) =>
                /\ th'[t].status = "404" /\ th'[t].pc = "ret"
                /\ UNCHANGED <<DATA_CACHE, LAST_MODIFIED, data_version, loads_stored>>
       /\ \A t \in Threads :
            (th'[t].op = "since" /\ Steps(t) /\ th'[t].status = "200") =>
                Has(DATA_CACHE, th[t].cache_key)
       /\ \A k \in SlashKeys :
            (~Has(DATA_CACHE, k) /\ Has(DATA_CACHE', k)) =>
                \E t \in Threads : /\ Steps(t) /\ th[t].op \in {"get", "summary"}
                                   /\ th[t].cache_key = k]_vars

\* the first request of a run is an incremental read of a symbol whose source file is
\* there and parses: it has answered 404 and nothing is cached
C39_Witness ==
    \E t \in Threads :
        /\ started = 1
        /\ th[t].op = "since" /\ At(t, "ret") /\ th[t].status = "404"
        /\ files[FileOf(th[t].cache_key)] = [mtime |-> 1, st |-> "ok"]
        /\ DATA_CACHE = <<>> /\ LAST_MODIFIED = <<>> /\ data_version = 1


\* the keys of d whose binding differs in e, and the keys e has more
Changed(d, e) ==
    {k \in DOMAIN d \cup DOMAIN e : ~(Has(d, k) /\ Has(e, k) /\ d[k] = e[k])}

C38_ReturnsEntryIsNeverReplaced ==
    [][\A k \in UnderKeys :
          /\ ~Has(LAST_MODIFIED', k)
          /\ Has(DATA_CACHE, k) => (Has(DATA_CACHE', k) /\ DATA_CACHE'[k] = DATA_CACHE[k])
          /\ (~Has(DATA_CACHE, k) /\ Has(DATA_CACHE', k)) =>
                 \E t \in Threads : At(t, "pr_store") /\ Steps(t) /\ th[t].cache_key = k]_vars

\* an all-returns task has answered from the entry an earlier all-returns task stored, the
\* only stored load of the run, after the source was rewritten and a refresh ran
C38_Witness ==
    \E t, u \in Threads :
        LET k == th[t].cache_key
        IN  /\ t # u
            /\ th[t].op = "returns" /\ At(t, "ret") /\ th[t].status = "record"
            /\ th[u].op = "refresh" /\ At(u, "ret") /\ th[u].status = "done"
            /\ loads_stored = 1 /\ started = 3
            /\ Has(DATA_CACHE, k) /\ ~Has(LAST_MODIFIED, k)
            /\ files[FileOf(k)].st = "ok"
            /\ files[FileOf(k)].mtime > DATA_CACHE[k].content
            /\ th[t].view = <<DATA_CACHE[k].content>>


\* the first-load branches: lines 969-973, 1137-1141 and 1352-1357
FirstLoadPcs == {"gb_load_first", "gb_store_first", "ps_load", "ps_store", "pr_load", "pr_store"}

\* C36: every series stored in DATA_CACHE is non-empty, and a first load that fails
\* (the operation ends in its first-load branch with an error or without a record)
\* leaves the key absent from DATA_CACHE and LAST_MODIFIED.
C36_NoEmptySeriesCached ==
    [][/\ \A k \in DOMAIN DATA_CACHE' : ~empty(Ref(DATA_CACHE'[k]))
       /\ \A t \in Threads :
            (th[t].pc \in FirstLoadPcs /\ Steps(t) /\ th'[t].pc = "ret"
                /\ th'[t].status \in {"500", "none"}) =>
                /\ ~Has(DATA_CACHE', th[t].cache_key)
                /\ ~Has(LAST_MODIFIED', th[t].cache_key)]_vars


----------------------------------------------------------------------------
\* The same operations with threads that the interpreter keeps scheduling

\* a step of thread t inside the operation it has started
ThreadStep(t) ==
    \/ GetLockCheck(t) \/ GetLockEnter(t) \/ GetLockCreate(t) \/ GetLockReturn(t)
    \/ AcquireKeyLock(t)
    \/ GetBucketDataCheck(t) \/ GetBucketDataLoadFirst(t) \/ GetBucketDataStoreFirst(t)
    \/ GetBucketDataReload(t) \/ GetBucketDataStoreReload(t)
    \/ GetBucketDataVersionRead(t) \/ GetBucketDataVersionWrite(t)
    \/ GetBucketDataRead(t) \/ GetBucketDataMetrics(t) \/ GetBucketDataRespond(t)
    \/ RefreshEnter(t) \/ RefreshSnapshot(t) \/ RefreshNext(t) \/ RefreshCheck(t)
    \/ RefreshLoad(t) \/ RefreshStore(t) \/ RefreshVersionRead(t) \/ RefreshVersionWrite(t)
    \/ SummaryCheck(t) \/ SummaryLoad(t) \/ SummaryStore(t) \/ SummaryMetrics(t)
    \/ SummaryDate(t) \/ SummaryDaily(t)
    \/ ReturnsCheck(t) \/ ReturnsLoad(t) \/ ReturnsStore(t) \/ ReturnsSample(t)
    \/ Finish(t)

\* the four operations that take the cache locks, on the file TS-1
NextLocks ==
    \/ \E f \in Rewritten : ProducerWrite(f)
    \/ \E f \in Rewritten : ProducerDelete(f)
    \/ \E t \in Threads, f \in Rewritten : GetBucketDataStart(t, f)
    \/ \E t \in Threads : RefreshStart(t)
    \/ \E t \in Threads, f \in Rewritten : SummaryStart(t, f)
    \/ \E t \in Threads, f \in Rewritten : ReturnsStart(t, f)
    \/ \E t \in Threads : ThreadStep(t)

\* A thread that can run is run again: the interpreter switches between the runnable
\* threads, and none of them is suspended for ever.
SpecFair == Init /\ [][NextLocks]_vars /\ \A t \in Threads : WF_vars(ThreadStep(t))

\* thread t is inside "with CACHE_LOCK" or inside "with cache_key_lock"
Holds(t) == CACHE_LOCK = t \/ \E l \in DOMAIN lockOwner : lockOwner[l] = t

\* C33: no operation blocks for ever on the cache locks: a thread that holds
\* CACHE_LOCK or a per-key lock can always take its next step, whenever an operation
\* is under way some thread can step, and every thread that holds a lock releases it
\* later, on the early error return of a failed first load as well.
C33_EveryLockIsReleased ==
    /\ [](\A t \in Threads : Holds(t) => ENABLED ThreadStep(t))
    /\ []((\E t \in Threads : ~At(t, "idle")) => \E t \in Threads : ENABLED ThreadStep(t))
    /\ \A t \in Threads : Holds(t) ~> ~Holds(t)

\* a first load has failed with the request answered 500, and the other thread has
\* taken the lock of that key since
C33_Witness ==
    \E t, u \in Threads :
        LET k == SlashKey(1)
        IN  /\ t # u
            /\ th[t].op = "get" /\ At(t, "ret") /\ th[t].status = "500"
            /\ ~Has(DATA_CACHE, k)
            /\ ~Holds(t)
            /\ th[u].cache_key = k /\ InSection(u)
            /\ Has(CACHE_KEY_LOCKS, k) /\ lockOwner[CACHE_KEY_LOCKS[k]] = u


----------------------------------------------------------------------------
\* load_csv_data_from_path statement by statement, with the exceptions its
\* statements raise.  arg describes the source file: whether os.path.exists finds
\* it, whether it is removed after that test, its bytes, and for a table its header,
\* the number of its rows and whether its timestamps parse; config tells whether
\* config.json can be read.  ret is the position in the function, the exception in
\* flight and the value returned.

SourceColumns == {"close", "timestamp", "position", "cumulative_return"}
MaxRows == 2
Sources ==
    [exists : BOOLEAN, vanishes : BOOLEAN, bytes : {"empty", "garbage", "table"},
     columns : SUBSET SourceColumns, rows : 0..MaxRows, stamps : {"ok", "bad"},
     config : {"ok", "missing"}]

\* pd.DataFrame()
EmptyDataFrame == [columns |-> {}, rows |-> 0]
NoException == "none"

InitLoad ==
    /\ CacheInit
    /\ arg \in Sources
    /\ ret = [pc |-> "exists", exc |-> NoException, df |-> EmptyDataFrame]

Raise(e) == ret' = [ret EXCEPT !.pc = "except", !.exc = e]
Step(p) == ret' = [ret EXCEPT !.pc = p]

\* lines 113-115
LoadExists ==
    /\ ret.pc = "exists"
    /\ IF arg.exists THEN Step("read_header")
       ELSE ret' = [ret EXCEPT !.pc = "return", !.df = EmptyDataFrame]
    /\ UNCHANGED <<cachevars, arg>>

\* line 120: pd.read_csv(csv_path, nrows=1)
LoadReadHeader ==
    /\ ret.pc = "read_header"
    /\ IF arg.vanishes THEN Raise("FileNotFoundError")
       ELSE IF arg.bytes = "empty" THEN Raise("EmptyDataError")
       ELSE IF arg.bytes = "garbage" THEN Raise("ParserError")
       ELSE Step("read_columns")
    /\ UNCHANGED <<cachevars, arg>>

\* lines 124-150: pd.read_csv(csv_path, usecols=required_columns)
LoadReadColumns ==
    /\ ret.pc = "read_columns"
    /\ ret' = [ret EXCEPT !.pc = "to_datetime",
                          !.df = [columns |-> arg.columns \cap usecols, rows |-> arg.rows]]
    /\ UNCHANGED <<cachevars, arg>>

\* lines 164-166
LoadToDatetime ==
    /\ ret.pc = "to_datetime"
    /\ IF "timestamp" \in ret.df.columns /\ ret.df.rows > 0 /\ arg.stamps = "bad"
       THEN Raise("ValueError")
       ELSE Step("sort_values")
    /\ UNCHANGED <<cachevars, arg>>

\* line 169
LoadSortValues ==
    /\ ret.pc = "sort_values"
    /\ IF "timestamp" \notin ret.df.columns THEN Raise("KeyError") ELSE Step("derive")
    /\ UNCHANGED <<cachevars, arg>>

\* lines 172-226: the derived columns; config.json is read in a try of its own
LoadDerive ==
    /\ ret.pc = "derive"
    /\ ret' = [ret EXCEPT
                  !.pc = "return",
                  !.df.columns =
                      IF /\ "cumulative_return" \notin ret.df.columns
                         /\ "position" \in ret.df.columns
                         /\ "close" \in ret.df.columns
                      THEN ret.df.columns \cup
                               {"returns", "position_lag", "strategy_returns", "cumulative_return",
                                "position_change", "is_trade", "position_change_abs",
                                "fee_multiplier", "strategy_returns_after_fees",
                                "cumulative_return_after_fees", "transaction_cost"}
                      ELSE ret.df.columns]
    /\ UNCHANGED <<cachevars, arg>>

\* the clause catches ParserError only
IsParserError(e) == e = "ParserError"

\* line 228: except Exception
IsException(e) ==
    e \in {"FileNotFoundError", "EmptyDataError", "ParserError", "ValueError", "KeyError"}

\* lines 228-230; an exception the clause does not catch leaves the function
LoadExcept ==
    /\ ret.pc = "except"
    /\ IF IsException(ret.exc)
       THEN ret' = [pc |-> "return", exc |-> NoException, df |-> EmptyDataFrame]
       ELSE Step("raised")
    /\ UNCHANGED <<cachevars, arg>>

NextLoad ==
    \/ LoadExists \/ LoadReadHeader \/ LoadReadColumns \/ LoadToDatetime
    \/ LoadSortValues \/ LoadDerive \/ LoadExcept

SpecLoad == InitLoad /\ [][NextLoad]_vars

\* the file is missing, is empty or does not parse
Unloadable ==
    \/ ~arg.exists \/ arg.vanishes
    \/ arg.bytes \in {"empty", "garbage"}
    \/ "timestamp" \notin arg.columns
    \/ arg.rows > 0 /\ arg.stamps = "bad"

\* C32: load_csv_data_from_path never raises, returns an empty DataFrame when the
\* file does not exist, is empty or fails to parse, and changes no shared state.
C32_LoaderNeverRaises ==
    [][/\ ret'.pc # "raised"
       /\ (ret'.pc = "return" /\ Unloadable) => ret'.df = EmptyDataFrame
       /\ UNCHANGED <<shared, files>>]_vars

\* the loader has returned the empty DataFrame from its except clause, for a file
\* that was there: one that is empty, is not a table, or was removed before the read
C32_Witness ==
    /\ ret.pc = "return" /\ ret.df = EmptyDataFrame
    /\ arg.exists
    /\ arg.bytes # "table" \/ arg.vanishes


----------------------------------------------------------------------------
\* process_symbol_returns: the sampling of a series.  arg is len(df) of the cached
\* series, which is never empty; ret is the list of the row positions that
\* df_sampled holds, as the response lists them in data.x and data.y.

MaxSeries == 1600
max_points == 500

\* df.iloc[::step]: the rows at the positions 0, step, 2*step, ... below n
iloc_step(n, step) == [i \in 1..((n + step - 1) \div step) |-> (i - 1) * step]

InitSample ==
    /\ CacheInit
    /\ arg \in 1..MaxSeries
    /\ ret = <<>>

\* lines 1373-1380
SampleReturns ==
    /\ ret = <<>>
    /\ ret' = IF arg > max_points
              THEN iloc_step(arg, arg \div max_points)
              ELSE iloc_step(arg, 1)
    /\ UNCHANGED <<cachevars, arg>>

NextSample == SampleReturns

SpecSample == InitSample /\ [][NextSample]_vars

\* C35: the sampled series that get_all_cumulative_returns returns for a symbol has
\* at most max_points points, whatever the length of the series.
C35_AtMostMaxPoints == Len(ret) <= max_points


----------------------------------------------------------------------------
\* The cache key of get_bucket_data and of get_bucket_data_since.  A string is a
\* sequence of tokens: a token of Digits is a run of digits, "TS-" and "Unknown-" are
\* the prefixes the code tests and writes, any other token is a word without digits.
\* A source file of the bucket is the TS-ID in its name and the hedge_symbol of its
\* TS-<id>.json, split at '-' (no parts: the metadata is missing, unreadable or has
\* no hedge_symbol).  arg is the bucket's listing and the symbol asked for, ret the
\* keys computed.

MaxFiles == 2
Digits == {"1", "2", "3"}
TsIds == {<<"1">>, <<"2">>}
NoHedgeSymbol == <<>>
HedgeSymbols == {NoHedgeSymbol, <<"BTC", "USD">>, <<"BTC", "USDT">>, <<"ETH">>}
SourceFiles == [ts_id : TsIds, hedge_symbol : HedgeSymbols]
\* os.listdir(bucket_path): the source files, no TS-ID twice
Listings ==
    {l \in UNION {[1..n -> SourceFiles] : n \in 0..MaxFiles} :
        \A i, j \in DOMAIN l : i # j => l[i].ts_id # l[j].ts_id}
SymbolArguments ==
    {<<d>> : d \in Digits} \cup {<<"TS-">> \o i : i \in TsIds}
        \cup {<<"BTC">>, <<"ETH">>, <<"SOL">>} \cup {<<"Unknown-">> \o i : i \in TsIds}

startswith(text, prefix) == text # <<>> /\ Head(text) = prefix
isdigit(text) == text # <<>> /\ \A i \in DOMAIN text : text[i] \in Digits
\* lines 868, 1029
is_ts_id(symbol) == startswith(symbol, "TS-") \/ isdigit(symbol)
\* lines 869-874: symbol[3:], or the symbol itself
target_ts_id(symbol) == IF startswith(symbol, "TS-") THEN Tail(symbol) ELSE symbol

bucket == <<"b">>
\* f"{bucket}/TS-{ts_id}"
KeyOfTsId(ts_id) == bucket \o <<"/", "TS-">> \o ts_id
\* f"{bucket}/{symbol}"
KeyOfSymbol(symbol) == bucket \o <<"/">> \o symbol

\* parts[0] if len(parts) >= 2 else hedge_symbol
BaseSymbol(parts) == IF Len(parts) >= 2 THEN <<parts[1]>> ELSE parts

\* lines 927-934: the name get_bucket_data gives a source file
SymbolNameOf(file) ==
    IF file.hedge_symbol # NoHedgeSymbol
    THEN BaseSymbol(file.hedge_symbol)
    ELSE <<"Unknown-">> \o file.ts_id

\* for ... break: the first of the matching entries of the listing, or 0
FirstMatch(matching) ==
    IF matching = {} THEN 0 ELSE CHOOSE i \in matching : \A j \in matching : i <= j

\* lines 904-960 of get_bucket_data: the file found and the key, or the 404 of 941-942
get_bucket_data_key(listing, symbol) ==
    LET ById == {j \in DOMAIN listing : listing[j].ts_id = target_ts_id(symbol)}
        ByName == {j \in DOMAIN listing : SymbolNameOf(listing[j]) = symbol}
        i == IF is_ts_id(symbol) THEN FirstMatch(ById) ELSE FirstMatch(ByName)
    IN  IF i = 0 THEN [found |-> FALSE, cache_key |-> <<>>]
        ELSE [found |-> TRUE,
              cache_key |-> IF is_ts_id(symbol)
                            THEN IF isdigit(symbol) THEN KeyOfTsId(symbol)
                                 ELSE KeyOfSymbol(symbol)
                            ELSE KeyOfTsId(listing[i].ts_id)]

\* lines 1046-1066: a file without a readable hedge_symbol matches no symbol
SinceMatches(file, symbol) ==
    file.hedge_symbol # NoHedgeSymbol /\ BaseSymbol(file.hedge_symbol) = symbol

\* lines 1029-1070 of get_bucket_data_since
get_bucket_data_since_key(listing, symbol) ==
    LET ByName == {j \in DOMAIN listing : SinceMatches(listing[j], symbol)}
        i == FirstMatch(ByName)
    IN  IF is_ts_id(symbol)
        THEN IF isdigit(symbol) THEN KeyOfTsId(symbol) ELSE KeyOfSymbol(symbol)
        ELSE IF i # 0 THEN KeyOfTsId(listing[i].ts_id) ELSE KeyOfSymbol(symbol)

InitKeys ==
    /\ CacheInit
    /\ arg \in [listing : Listings, symbol : SymbolArguments]
    /\ ret = <<>>

\* GET /api/data/<bucket>/<symbol>
KeyOfGet ==
    /\ "get" \notin DOMAIN ret
    /\ ret' = [k \in DOMAIN ret \cup {"get"} |->
                  IF k = "get" THEN get_bucket_data_key(arg.listing, arg.symbol) ELSE ret[k]]
    /\ UNCHANGED <<cachevars, arg>>

\* GET /api/data/<bucket>/<symbol>/since/<last_timestamp>
KeyOfSince ==
    /\ "since" \notin DOMAIN ret
    /\ ret' = [k \in DOMAIN ret \cup {"since"} |->
                  IF k = "since" THEN get_bucket_data_since_key(arg.listing, arg.symbol)
                  ELSE ret[k]]
    /\ UNCHANGED <<cachevars, arg>>

NextKeys == KeyOfGet \/ KeyOfSince

SpecKeys == InitKeys /\ [][NextKeys]_vars

\* C34: for every content of the bucket and every symbol argument for which
\* get_bucket_data finds a source file, get_bucket_data_since computes the same
\* cache key as get_bucket_data.
C34_SameCacheKey ==
    (DOMAIN ret = {"get", "since"} /\ ret.get.found) => ret.since = ret.get.cache_key

====
